---- MODULE Spec2Model ----
(***************************************************************************)
(* A model of finplot's data-windowing core (src/finplot/__init__.py):     *)
(* PandasDataSource (table, scale columns, hi-lo cache, addcols, update,   *)
(* level-of-detail rows) and FinViewBox (pan_x, zoom_rect, update_y_zoom). *)
(*                                                                         *)
(* Numbers.  Row coordinates handed to hilo are floats that are multiples  *)
(* of 0.5 in every call the program makes after the rigid-edge rounding;   *)
(* they are kept as integers counting halves (x = xh/2).  Coordinates      *)
(* inside update_y_zoom are exact rationals n/d.  All scale factors and    *)
(* pivots used are dyadic, so the exact arithmetic equals the float one.   *)
(***************************************************************************)
EXTENDS Integers, Sequences, FiniteSets, TLC

VARIABLES
    ds,        \* store name -> PandasDataSource object
    vb,        \* the FinViewBox of the one axis and the items plotted on it
    drawn,     \* what the last rows() call returned, with its lod argument
    item,      \* the FinPlotItem drawn on the axis: dirty flag and cached range
    call,      \* the last call of a function without side effects: arguments and result
    nupd,      \* how many update calls have been made so far
    nops,      \* how many pan and zoom calls have been made so far
    log,       \* history: the last two pan and zoom calls, oldest first
    recency,   \* history: per store, every key ever queried, oldest query first
    evicted    \* history: the keys the last hilo call dropped from its cache

vars == <<ds, vb, drawn, item, call, nupd, nops, log, recency, evicted>>

-----------------------------------------------------------------------------
(* Program constants *)

right_margin_candles == 5

max_zoom_points == 20

lod_candles == 3000

cache_hilo_limit == 100

(* numpy.nan, the cell pandas puts where a joined table has no value.  It  *)
(* is kept out of the range of every data value of the model.              *)
NaN == 0 - 1000000

(* an attribute that has not been assigned yet (init_x0, init_x1) *)
Unset == 0 - 2000000

-----------------------------------------------------------------------------
(* Helpers *)

SetMax(S) == CHOOSE m \in S : \A y \in S : y <= m

SetMin(S) == CHOOSE m \in S : \A y \in S : m <= y

Range(f) == {f[i] : i \in DOMAIN f}

IndexOf(seq, x) == CHOOSE i \in 1..Len(seq) : seq[i] = x

(* Python int(n/d) for d > 0: truncation toward zero *)
int(n, d) == IF n >= 0 THEN n \div d ELSE 0 - ((0 - n) \div d)

-----------------------------------------------------------------------------
(* PandasDataSource *)

Stores == {"A", "B"}

_has_timecol(df) == Len(df.columns) >= 2

(* PandasDataSource.__init__ for a table whose first column is time and    *)
(* whose other columns are numeric.  dfid is the identity of the table     *)
(* object self.df references: two stores alias one table iff their dfid    *)
(* are equal.                                                              *)
PandasDataSource(df, id) ==
    [df               |-> df,
     dfid             |-> id,
     col_data_offset  |-> IF _has_timecol(df) THEN 1 ELSE 0,
     scale_cols       |-> [i \in 1..(Len(df.columns) - (IF _has_timecol(df) THEN 1 ELSE 0))
                              |-> i - 1 + (IF _has_timecol(df) THEN 1 ELSE 0)],
     cache_hilo       |-> <<>>,
     cache_hilo_query |-> <<>>,
     renames          |-> <<>>,
     init_x0          |-> Unset,
     init_x1          |-> Unset]

xlen(st) == Len(st.df.rows) + right_margin_candles

(* '%i,%i' % (x0,x1) of hilo: the canonical integer key of a range given   *)
(* in halves.  The text of two integers is rendered here as the pair.      *)
hilo_key(x0h, x1h) ==
    IF x0h = x1h THEN <<int(x1h, 2), int(x1h, 2)>>
                 ELSE <<int(x0h + 1, 2), int(x1h, 2)>>

(* self.df.loc[x0:x1, :] on the RangeIndex 0..n-1: positions (1-based) of  *)
(* the rows whose label lies in [x0,x1]                                    *)
loc(df, x0, x1) == {i \in 1..Len(df.rows) : x0 <= i - 1 /\ i - 1 <= x1}

(* the non-NaN cells of the scale columns in the given rows *)
ScaleCells(st, R) ==
    {st.df.rows[i][st.scale_cols[j] + 1] : i \in R, j \in 1..Len(st.scale_cols)} \ {NaN}

_hilo(st, x0, x1) ==
    LET R     == loc(st.df, x0, x1)
        cells == ScaleCells(st, R)
    IN  IF R = {} THEN <<0, 0, 0, 0, 0>>
        ELSE <<st.df.rows[SetMin(R)][1],
               st.df.rows[SetMax(R)][1],
               IF cells = {} THEN NaN ELSE SetMax(cells),
               IF cells = {} THEN NaN ELSE SetMin(cells),
               Cardinality(R)>>

(* YScale.invxform of a cell for a linear scale: y / scalef, kept exact as *)
(* numerator and denominator                                              *)
invxform(yscale, y) == <<y, yscale.scalef>>

(* _rows for the row positions df (ascending) of a slice: every           *)
(* (len(df)//lod_candles)-th row when lod is on and the slice is longer   *)
(* than lod_candles, then the time column and the colcnt-1 data columns,  *)
(* mapped back through the Y scale when that is not the identity.  Views  *)
(* with a log scale are not part of the model.                            *)
_rows(st, df, colcnt, yscale, lod) ==
    LET n       == Len(df)
        stride  == n \div lod_candles
        sel     == IF lod /\ n > lod_candles
                   THEN [i \in 1..((n + stride - 1) \div stride) |-> df[(i - 1) * stride + 1]]
                   ELSE df
        colidxs == <<0>> \o [j \in 1..(colcnt - 1) |-> st.col_data_offset + j - 1]
        cell(i, j) == st.df.rows[sel[i]][colidxs[j] + 1]
    IN  [i \in 1..Len(sel) |->
            [j \in 1..Len(colidxs) |->
                IF j > 1 /\ yscale.scalef # 1 /\ cell(i, j) # NaN
                THEN invxform(yscale, cell(i, j)) ELSE cell(i, j)]]

rows(st, colcnt, x0, x1, yscale, lod) ==
    LET R  == loc(st.df, x0, x1)
        df == SelectSeq([i \in 1..Len(st.df.rows) |-> i], LAMBDA i : i \in R)
    IN  [df |-> _rows(st, df, colcnt, yscale, lod), origlen |-> Len(df), lod |-> lod]

(* no function has been called yet *)
NoCall == [op |-> "none"]

(* no item has been created on the axis *)
NoItem == [lod |-> FALSE, dirty |-> TRUE]

(* no rows() call has been made yet *)
NotDrawn == [df |-> <<>>, origlen |-> 0, lod |-> FALSE]

CacheKeys(cache) == {cache[i].key : i \in 1..Len(cache)}

CacheGet(cache, k) == cache[CHOOSE i \in 1..Len(cache) : cache[i].key = k].val

CacheWithout(cache, k) == SelectSeq(cache, LAMBDA e : e.key # k)

(* the value hilo(x0,x1) returns in store st: the cached tuple on a hit,   *)
(* a fresh scan on a miss                                                  *)
hilo_value(st, x0h, x1h) ==
    LET k == hilo_key(x0h, x1h)
    IN  IF k \in CacheKeys(st.cache_hilo) THEN CacheGet(st.cache_hilo, k)
        ELSE _hilo(st, k[1], k[2])

(* hilo_drop with the limit off by one *)
hilo_drop_late(cache) == IF Len(cache) > cache_hilo_limit + 1 THEN Tail(cache) ELSE cache

(* the "drop if too many" step of hilo *)
hilo_drop(cache) == IF Len(cache) > cache_hilo_limit THEN Tail(cache) ELSE cache

(* hilo_cache without the re-insertion on a hit: the entry keeps its place *)
hilo_cache_noraise(st, x0h, x1h) ==
    LET k == hilo_key(x0h, x1h)
    IN  IF k \in CacheKeys(st.cache_hilo) THEN st.cache_hilo
        ELSE hilo_drop(Append(st.cache_hilo, [key |-> k, val |-> _hilo(st, k[1], k[2])]))

(* the cache hilo(x0,x1) leaves behind *)
hilo_cache(st, x0h, x1h) ==
    LET k == hilo_key(x0h, x1h)
        v == hilo_value(st, x0h, x1h)
    IN  hilo_drop(Append(CacheWithout(st.cache_hilo, k), [key |-> k, val |-> v]))

(* the history kept beside a hilo call on store s *)
Touch(rec, k) == Append(SelectSeq(rec, LAMBDA q : q # k), k)

hilo(s, x0h, x1h) ==
    LET st == ds[s]
        k  == hilo_key(x0h, x1h)
        c  == hilo_cache(st, x0h, x1h)
    IN  /\ ds' = [ds EXCEPT ![s].cache_hilo = c]
        /\ recency' = [recency EXCEPT ![s] = Touch(@, k)]
        /\ evicted' = (CacheKeys(st.cache_hilo) \cup {k}) \ CacheKeys(c)

-----------------------------------------------------------------------------
(* Tables: update and addcols.  Every table of the model has a time       *)
(* column (its first), with strictly increasing times, so addcols and     *)
(* update take their set_index(timecol) paths.                            *)

RECURSIVE SortedSeq(_)
SortedSeq(S) == IF S = {} THEN <<>> ELSE <<SetMin(S)>> \o SortedSeq(S \ {SetMin(S)})

(* the cell of column position c in the row of df whose column position   *)
(* tc holds t; NaN when df has no such row (pandas index alignment)       *)
CellAt(df, tc, t, c) ==
    IF \E i \in 1..Len(df.rows) : df.rows[i][tc] = t
    THEN df.rows[CHOOSE i \in 1..Len(df.rows) : df.rows[i][tc] = t][c]
    ELSE NaN

(* the identity of a table object no store references yet *)
FreshId(d) == SetMin({n \in 0..Cardinality(DOMAIN d) : \A s \in DOMAIN d : d[s].dfid # n})

(* self.renames.get(col, col) *)
renames_get(renames, col) == IF col \in DOMAIN renames THEN renames[col] ELSE col

(* update_init_x, in halves *)
update_init_x(st, init_steps) ==
    [st EXCEPT !.init_x0 = 2 * (IF xlen(st) - init_steps > 0 THEN xlen(st) - init_steps ELSE 0) - 1,
               !.init_x1 = 2 * xlen(st) - 1]

(* positions of the columns of cols that are named name *)
Positions(cols, name) == SelectSeq([i \in 1..Len(cols) |-> i], LAMBDA i : cols[i] = name)

(* data[col] = df[col] of update raises ValueError when df has more than  *)
(* one column named col (df[col] is then a table, not a column)           *)
update_raises(st, new) ==
    LET orig_cols == st.df.columns
        timecol   == orig_cols[1]
        datacols  == [i \in 1..Len(new.columns) |->
                         IF new.columns[i] = timecol THEN timecol
                         ELSE renames_get(st.renames, new.columns[i])]
    IN  \E col \in Range(orig_cols) \ Range(datacols) : Len(Positions(orig_cols, col)) > 1

(* the table PandasDataSource.update(datasrc) assigns to self.df: data is *)
(* the new table with its columns renamed and the columns only the old    *)
(* table has appended (aligned on time); data[orig_cols] then takes, for  *)
(* each name of orig_cols in turn, every column of data with that name    *)
update_df(st, new) ==
    LET orig_cols == st.df.columns
        timecol   == orig_cols[1]
        nt        == IndexOf(new.columns, timecol)
        datacols  == [i \in 1..Len(new.columns) |->
                         IF i = nt THEN timecol ELSE renames_get(st.renames, new.columns[i])]
        carried   == SelectSeq([i \in 1..Len(orig_cols) |-> i],
                               LAMBDA i : /\ orig_cols[i] \notin Range(datacols)
                                          /\ Positions(orig_cols, orig_cols[i])[1] = i)
        (* a column of data: <<"new", position in new>> or <<"old", position in df>> *)
        data      == [i \in 1..Len(new.columns) |-> <<"new", i>>]
                     \o [k \in 1..Len(carried) |-> <<"old", carried[k]>>]
        dataname(c) == IF c[1] = "new" THEN datacols[c[2]] ELSE orig_cols[c[2]]
        RECURSIVE pick(_)
        pick(j)   == IF j > Len(orig_cols) THEN <<>>
                     ELSE SelectSeq(data, LAMBDA c : dataname(c) = orig_cols[j]) \o pick(j + 1)
        sel       == pick(1)
        cell(r, c) == IF c[1] = "new" THEN new.rows[r][c[2]]
                      ELSE CellAt(st.df, 1, new.rows[r][nt], c[2])
    IN  [columns |-> [k \in 1..Len(sel) |-> dataname(sel[k])],
         rows    |-> [r \in 1..Len(new.rows) |-> [k \in 1..Len(sel) |-> cell(r, sel[k])]]]

update_store(st, new, id) ==
    IF update_raises(st, new) THEN st
    ELSE LET st1 == [st EXCEPT !.df = update_df(st, new), !.dfid = id]
         IN  [st1 EXCEPT !.init_x1 = 2 * xlen(st1) - 1]

(* the while loop of addcols: append '+' until the name is not a column   *)
(* of self.df                                                             *)
RECURSIVE addcols_rename(_, _)
addcols_rename(selfcols, col) ==
    IF col \in Range(selfcols) THEN addcols_rename(selfcols, col \o "+") ELSE col

(* column positions of datasrc.df that stay columns after set_index(timecol) *)
addcols_timepos(self, other) ==
    IF self.df.columns[1] \in Range(other.df.columns)
    THEN IndexOf(other.df.columns, self.df.columns[1]) ELSE 1

addcols_newpos(self, other) ==
    SelectSeq([i \in 1..Len(other.df.columns) |-> i],
              LAMBDA i : i # addcols_timepos(self, other))

(* the names the new columns get *)
addcols_cols(self, other) ==
    [j \in 1..Len(addcols_newpos(self, other)) |->
        addcols_rename(self.df.columns, other.df.columns[addcols_newpos(self, other)[j]])]

(* datasrc.renames after the loop *)
addcols_renames(self, other) ==
    LET pos  == addcols_newpos(self, other)
        cols == addcols_cols(self, other)
        ren  == {j \in 1..Len(pos) : cols[j] # other.df.columns[pos[j]]}
    IN  [c \in DOMAIN other.renames \cup {other.df.columns[pos[j]] : j \in ren} |->
            IF \E j \in ren : other.df.columns[pos[j]] = c
            THEN cols[SetMax({j \in ren : other.df.columns[pos[j]] = c})]
            ELSE other.renames[c]]

(* pd.concat([df, newcols], axis=1) on the time index, then reset_index *)
addcols_df(self, other) ==
    LET tp    == addcols_timepos(self, other)
        pos   == addcols_newpos(self, other)
        times == SortedSeq({self.df.rows[i][1] : i \in 1..Len(self.df.rows)}
                           \cup {other.df.rows[i][tp] : i \in 1..Len(other.df.rows)})
        n     == Len(self.df.columns)
    IN  [columns |-> self.df.columns \o addcols_cols(self, other),
         rows    |-> [r \in 1..Len(times) |->
                        [j \in 1..(n + Len(pos)) |->
                            IF j = 1 THEN times[r]
                            ELSE IF j <= n THEN CellAt(self.df, 1, times[r], j)
                            ELSE CellAt(other.df, tp, times[r], pos[j - n])]]]

addcols_new_scale_cols(self, other) ==
    [j \in 1..Len(other.scale_cols) |->
        other.scale_cols[j] + Len(self.df.columns) - other.col_data_offset]

(* self after self.addcols(datasrc) *)
addcols_self(self, other, id) ==
    [self EXCEPT !.scale_cols = self.scale_cols \o addcols_new_scale_cols(self, other),
                 !.df = addcols_df(self, other),
                 !.dfid = id,
                 !.cache_hilo_query = <<>>]

(* datasrc after self.addcols(datasrc) *)
addcols_other(self, other, id) ==
    [other EXCEPT !.renames = addcols_renames(self, other),
                  !.df = addcols_df(self, other),
                  !.dfid = id,
                  !.init_x0 = self.init_x0,
                  !.init_x1 = self.init_x1,
                  !.col_data_offset = Len(self.df.columns),
                  !.scale_cols = addcols_new_scale_cols(self, other)]

-----------------------------------------------------------------------------
(* Inputs of the store operations *)

CandleCols == <<"time", "open", "close", "high", "low">>

LineCols == <<"time", "close">>

(* candle tables: the first, the same with its last candle still moving,  *)
(* and the same with one more candle                                      *)
CandleTables ==
    {[columns |-> CandleCols, rows |-> <<<<10, 3, 4, 6, 2>>, <<20, 4, 5, 8, 3>>, <<30, 5, 4, 7, 4>>>>],
     [columns |-> CandleCols, rows |-> <<<<10, 3, 4, 6, 2>>, <<20, 4, 5, 8, 3>>, <<30, 5, 6, 9, 4>>>>],
     [columns |-> CandleCols, rows |-> <<<<10, 3, 4, 6, 2>>, <<20, 4, 5, 8, 3>>, <<30, 5, 4, 7, 4>>,
                                         <<40, 4, 3, 5, 1>>>>]}

LineTables ==
    {[columns |-> LineCols, rows |-> <<<<10, 1>>, <<20, 10>>, <<30, 5>>>>],
     [columns |-> LineCols, rows |-> <<<<10, 1>>, <<20, 10>>, <<30, 5>>, <<40, 12>>>>]}

TablesOf(s) == IF s = "A" THEN CandleTables ELSE LineTables

(* hilo arguments, in halves: hilo(0, 2), the whole of a three-row table,  *)
(* and hilo(0, 3), the whole of a four-row table                          *)
QueryRanges == {<<0, 4>>, <<0, 6>>}

(* how many update calls a behaviour makes at most *)
MaxUpdates == 1

(* FinViewBox.__init__ for init_steps, with pyqtgraph's initial view       *)
(* rectangle [0,1] x [0,1].  tr is the X-range (targetRect and viewRect,  *)
(* which setRange with padding 0 sets together) in halves; yr is the      *)
(* Y-range in units of 1e-7; v_zoom_baseline is in halves; yscale is the  *)
(* YScale('linear', 1) of the default argument.  items is                 *)
(* ax.items of the axis of the box: for each item its store and whether   *)
(* it is a FinPlotItem.                                                   *)
FinViewBox(init_steps) ==
    [datasrc         |-> "None",
     items           |-> <<>>,
     init_steps      |-> init_steps,
     shown           |-> FALSE,
     v_zoom_baseline |-> 1,
     v_autozoom      |-> TRUE,
     yscale          |-> [scaletype |-> "linear", scalef |-> 1],
     tr              |-> <<0, 2>>,
     yr              |-> <<0, 10000000>>]

NoView == FinViewBox(300)

-----------------------------------------------------------------------------
(* SpecStore: the operations of PandasDataSource on two stores, A made    *)
(* from a candle table and B from a line table.                           *)

InitStore ==
    /\ \E ta \in CandleTables, tb \in LineTables :
          ds = [s \in Stores |-> IF s = "A" THEN PandasDataSource(ta, 0)
                                             ELSE PandasDataSource(tb, 1)]
    /\ vb = NoView
    /\ drawn = NotDrawn
    /\ item = NoItem
    /\ call = NoCall
    /\ nupd = 0
    /\ nops = 0
    /\ log = <<>>
    /\ recency = [s \in Stores |-> <<>>]
    /\ evicted = {}

Hilo(s, r) == hilo(s, r[1], r[2]) /\ UNCHANGED <<vb, drawn, item, call, nupd, nops, log>>

(* datasrc.scale_cols = [3,4] of candlestick_ochl, which runs before the   *)
(* store is merged into another                                           *)
SetScaleCols(s, cols) ==
    /\ ds[s].dfid # ds[IF s = "A" THEN "B" ELSE "A"].dfid
    /\ ds[s].scale_cols = PandasDataSource(ds[s].df, 0).scale_cols
    /\ \A j \in 1..Len(cols) : cols[j] < Len(ds[s].df.columns)
    /\ ds' = [ds EXCEPT ![s].scale_cols = cols]
    /\ UNCHANGED <<vb, drawn, item, call, nupd, nops, log, recency, evicted>>

Update(s, new) ==
    /\ nupd < MaxUpdates
    /\ nupd' = nupd + 1
    /\ ds' = [ds EXCEPT ![s] = update_store(ds[s], new, FreshId(ds))]
    /\ UNCHANGED <<vb, drawn, item, call, nops, log, recency, evicted>>

Addcols(self, other) ==
    /\ self # other
    /\ ds[self].dfid # ds[other].dfid
    /\ ds' = [ds EXCEPT ![self]  = addcols_self(ds[self], ds[other], FreshId(ds)),
                        ![other] = addcols_other(ds[self], ds[other], FreshId(ds))]
    /\ UNCHANGED <<vb, drawn, item, call, nupd, nops, log, recency, evicted>>

NextStore ==
    \/ \E r \in QueryRanges : Hilo("A", r)
    \/ SetScaleCols("A", <<3, 4>>)
    \/ \E s \in Stores : \E new \in TablesOf(s) : Update(s, new)
    \/ Addcols("A", "B")

SpecStore == InitStore /\ [][NextStore]_vars

-----------------------------------------------------------------------------
(* SpecEmpty: hilo queries on store A, among them queries whose row range *)
(* holds no row, interleaved with updates that lengthen or shorten the    *)
(* table.                                                                 *)

(* hilo arguments, in halves, whose range is empty in a three-row table:  *)
(* hilo(3, 3) and hilo(4, 6) past the last row, the reversed hilo(2, 0),  *)
(* and hilo(-2, -1) before the first row                                  *)
EmptyRanges == {<<6, 6>>, <<8, 12>>, <<4, 0>>, <<0 - 4, 0 - 2>>}

InitEmpty == InitStore

NextEmpty ==
    \/ \E r \in QueryRanges \cup EmptyRanges : Hilo("A", r)
    \/ \E new \in CandleTables : Update("A", new)

SpecEmpty == InitEmpty /\ [][NextEmpty]_vars

-----------------------------------------------------------------------------
(* SpecCache: a long session of hilo queries on one store.  The queries   *)
(* are hilo(k, k) for k = 0, 1, 2, ... in this order (each a key never    *)
(* seen before), and between them, at any time, hilo(0, 0) again.         *)

(* how many distinct ranges a behaviour queries at most *)
MaxKeys == 103

InitCache ==
    /\ ds = [s \in Stores |->
               IF s = "A"
               THEN PandasDataSource([columns |-> CandleCols,
                                      rows |-> <<<<10, 3, 4, 6, 2>>, <<20, 4, 5, 8, 3>>,
                                                 <<30, 5, 4, 7, 4>>>>], 0)
               ELSE PandasDataSource([columns |-> LineCols,
                                      rows |-> <<<<10, 1>>, <<20, 10>>, <<30, 5>>>>], 1)]
    /\ vb = NoView
    /\ drawn = NotDrawn
    /\ item = NoItem
    /\ call = NoCall
    /\ nupd = 0
    /\ nops = 0
    /\ log = <<>>
    /\ recency = [s \in Stores |-> <<>>]
    /\ evicted = {}

HiloNew ==
    /\ Len(recency["A"]) < MaxKeys
    /\ hilo("A", 2 * Len(recency["A"]), 2 * Len(recency["A"]))
    /\ UNCHANGED <<vb, drawn, item, call, nupd, nops, log>>

HiloAgain ==
    /\ Len(recency["A"]) > 0
    /\ hilo("A", 0, 0)
    /\ UNCHANGED <<vb, drawn, item, call, nupd, nops, log>>

NextCache == HiloNew \/ HiloAgain

SpecCache == InitCache /\ [][NextCache]_vars

-----------------------------------------------------------------------------
(* Claims about the hi-lo cache *)

(* C1: after any sequence of hilo calls on a store, its cache_hilo holds  *)
(* at most 100 entries at the return of every call.                       *)
C1_CacheBounded == \A s \in Stores : Len(ds[s].cache_hilo) <= 100

(* more than 100 distinct ranges have been queried and the last call      *)
(* dropped an entry                                                       *)
C1_Witness == Len(recency["A"]) > 100 /\ evicted # {} /\ Len(ds["A"].cache_hilo) = 100

(* the key of K whose most recent query is the oldest *)
OldestQueried(rec, K) == rec[SetMin({i \in 1..Len(rec) : rec[i] \in K})]

(* C2: a hilo call that inserts a new key into a cache holding 100        *)
(* entries evicts exactly one entry, the key whose most recent query      *)
(* (miss or hit) is the oldest, and never the key just queried.           *)
C2_EvictsLeastRecent ==
    [][\A s \in Stores :
          LET pre  == CacheKeys(ds[s].cache_hilo)
              post == CacheKeys(ds'[s].cache_hilo)
              k    == recency'[s][Len(recency'[s])]
          IN  (recency'[s] # recency[s] /\ Len(ds[s].cache_hilo) = 100 /\ k \notin pre)
              => /\ (pre \cup {k}) \ post = {OldestQueried(recency[s], pre)}
                 /\ k \in post
                 /\ Len(ds'[s].cache_hilo) = 100]_vars

(* an entry was evicted while the first key ever queried, queried again   *)
(* since, is still cached                                                 *)
C2_Witness ==
    /\ evicted # {}
    /\ <<0, 0>> \in CacheKeys(ds["A"].cache_hilo)
    /\ <<1, 1>> \notin CacheKeys(ds["A"].cache_hilo)
    /\ Len(recency["A"]) > 100

(* the arguments the claims about hilo's result range over, in halves *)
ArgRange == (0 - 2)..10

(* C3: at every point of any sequence of hilo, update, addcols and        *)
(* scale-column assignments, hilo(x0,x1) returns the tuple a fresh scan   *)
(* of the store's current table and current scale columns over the        *)
(* canonical row range gives.                                             *)
C3_HiloIsFresh ==
    \A s \in Stores : \A x0h \in ArgRange, x1h \in ArgRange :
        hilo_value(ds[s], x0h, x1h)
            = _hilo(ds[s], hilo_key(x0h, x1h)[1], hilo_key(x0h, x1h)[2])

(* C6: for every integer row range [a,b], a <= b, that intersects the     *)
(* table, hilo(a,b) returns a row count equal to the number of table rows *)
(* with index in [a,b].                                                   *)
C6_HiloCount ==
    \A s \in Stores : \A a \in (0 - 1)..5, b \in (0 - 1)..5 :
        LET n == Len(ds[s].df.rows)
            R == {i \in 0..(n - 1) : a <= i /\ i <= b}
        IN  (a <= b /\ R # {}) => hilo_value(ds[s], 2 * a, 2 * b)[5] = Cardinality(R)

(* a store set up by candlestick_ochl and not merged with another *)
IsCandlestick(st) == st.df.columns = CandleCols /\ st.scale_cols = <<3, 4>>

(* C7: for a candlestick store, hilo(0, n-1) returns the first and last   *)
(* time, the maximum of the high column and the minimum of the low column *)
(* of the table.                                                          *)
C7_HiloWholeTable ==
    \A s \in Stores :
        LET df == ds[s].df
            n  == Len(df.rows)
            v  == hilo_value(ds[s], 0, 2 * (n - 1))
        IN  (IsCandlestick(ds[s]) /\ n > 1)
            => /\ v[1] = df.rows[1][1]
               /\ v[2] = df.rows[n][1]
               /\ v[3] = SetMax({df.rows[i][4] : i \in 1..n})
               /\ v[4] = SetMin({df.rows[i][5] : i \in 1..n})

-----------------------------------------------------------------------------
(* FinViewBox: pan, zoom and the rigid-edge / Y-range update *)

(* the Y unit: yr counts steps of 1e-7, so the 2e-7 floor of the linear   *)
(* range is 2                                                             *)
y_unit == 10000000

(* steps=+1e10 / -1e10 of the End and Home keys, and init_zoom_periods=   *)
(* 1e10 of create_plot: a count larger than any table of the model        *)
far == 1000000

Abs(x) == IF x < 0 THEN 0 - x ELSE x

Max2(a, b) == IF a >= b THEN a ELSE b

Min2(a, b) == IF a <= b THEN a ELSE b

(* Python round(n/d) for d > 0: nearest integer, ties to the even one *)
round(n, d) ==
    LET q == n \div d
        r == n - q * d
    IN  IF 2 * r < d THEN q
        ELSE IF 2 * r > d THEN q + 1
        ELSE IF q % 2 = 0 THEN q ELSE q + 1

(* the edge one cell further right: round(x + 0.5) + 0.5 *)
cell_edge_next(n, d) == round(n + d, 2 * d) * 2 * d + d

(* edges made rigid on every fourth cell boundary only: x = n/dd moved to *)
(* 4*round((x - 0.5)/4) + 0.5                                             *)
cell_edge_every_fourth(n, d) == round(n - d, 8 * d) * 8 * d + d

(* round(x - 0.5) + 0.5 for x = n/dd with dd = 2*d, as a numerator over dd *)
cell_edge(n, d) == round(n - d, 2 * d) * 2 * d + d

(* rigid_edges without the min(..., xlen-0.5) of its last line *)
rigid_edges_open_right(x0n, x1n, d, xl) ==
    LET X0   == 2 * x0n
        X1   == 2 * x1n
        left == 0 - d
        rght == xl * 2 * d - d
        xl0  == Max2(cell_edge(X0, d), left)
        xr0  == Min2(cell_edge(X1, d), rght)
        dxl  == xl0 - X0
        dxr  == xr0 - X1
        X1a  == IF dxl > 0 THEN X1 + dxl ELSE X1
        X0a  == IF dxr < 0 THEN X0 + dxr ELSE X0
    IN  <<Max2(cell_edge(X0a, d), left) \div d, cell_edge(X1a, d) \div d>>

(* rigid_edges without the shift of the opposite edge: each edge rounded  *)
(* and cut at its data bound on its own                                   *)
rigid_edges_unshifted(x0n, x1n, d, xl) ==
    <<Max2(cell_edge(2 * x0n, d), 0 - d) \div d,
      Min2(cell_edge(2 * x1n, d), xl * 2 * d - d) \div d>>

(* "make edges rigid" of update_y_zoom for x0 = x0n/d, x1 = x1n/d and the  *)
(* store's xlen; the result is in halves                                  *)
rigid_edges(x0n, x1n, d, xl) ==
    LET X0   == 2 * x0n
        X1   == 2 * x1n
        left == 0 - d
        rght == xl * 2 * d - d
        xl0  == Max2(cell_edge(X0, d), left)
        xr0  == Min2(cell_edge(X1, d), rght)
        dxl  == xl0 - X0
        dxr  == xr0 - X1
        X1a  == IF dxl > 0 THEN X1 + dxl ELSE X1
        X0a  == IF dxr < 0 THEN X0 + dxr ELSE X0
    IN  <<Max2(cell_edge(X0a, d), left) \div d, Min2(cell_edge(X1a, d), rght) \div d>>

(* update_y_zoom without its early return *)
zoom_never_skipped(cnt, tr) == FALSE

(* the early return of update_y_zoom taken when either of its two tests   *)
(* holds                                                                  *)
zoom_skipped_either(cnt, tr) == 2 * cnt < tr[2] - tr[1] \/ cnt < max_zoom_points

(* the test that makes update_y_zoom return without setting a range *)
zoom_skipped(cnt, tr) == 2 * cnt < tr[2] - tr[1] /\ cnt < max_zoom_points

(* the linear branch of update_y_zoom with v_zoom_scale = 1: hi, lo and   *)
(* the result in units of 1e-7, the baseline in halves                    *)
y_range(hi, lo, bl2) ==
    LET rng == Max2(hi - lo, 2)
    IN  <<((hi + lo) * bl2 - rng * bl2) \div 2, ((hi + lo) * bl2 + rng * (2 - bl2)) \div 2>>

(* the viewbox after update_y_zoom(x0n/d, x1n/d), v being what hilo       *)
(* returned for the rigid range e; set_range returns early on NaN         *)
update_y_zoom_vb(v, e) ==
    LET hi == IF vb.v_autozoom THEN (IF v[3] = NaN THEN NaN ELSE v[3] * y_unit) ELSE vb.yr[2]
        lo == IF vb.v_autozoom THEN (IF v[4] = NaN THEN NaN ELSE v[4] * y_unit) ELSE vb.yr[1]
    IN  IF zoom_skipped(v[5], vb.tr) \/ hi = NaN \/ lo = NaN THEN vb
        ELSE [vb EXCEPT !.tr = e, !.yr = y_range(hi, lo, vb.v_zoom_baseline)]

update_y_zoom(x0n, x1n, d) ==
    LET e == rigid_edges(x0n, x1n, d, xlen(ds[vb.datasrc]))
    IN  /\ hilo(vb.datasrc, e[1], e[2])
        /\ vb' = update_y_zoom_vb(hilo_value(ds[vb.datasrc], e[1], e[2]), e)

(* the range pan_x hands to update_y_zoom, in halves *)
pan_x_range(tr, steps, xl) ==
    LET w    == tr[2] - tr[1]
        endx == 2 * xl - 1
        x1   == IF tr[2] + 2 * steps > endx THEN endx ELSE tr[2] + 2 * steps
    IN  IF x1 - w < 0 - 1 THEN <<0 - 1, w - 1>> ELSE <<x1 - w, x1>>

(* int(percent/100*self.targetRect().width()) *)
pan_x_steps(tr, percent) == int(percent * (tr[2] - tr[1]), 200)

(* the range zoom_rect hands to update_y_zoom for vr = tr (halves), scale *)
(* factor sn/sd and center c8/8: numerators over 8*sd                     *)
zoom_rect_range(tr, sn, sd, c8) ==
    <<c8 * sd + (4 * tr[1] - c8) * sn, c8 * sd + (4 * tr[2] - c8) * sn>>

Push(l, rec) == IF Len(l) < 2 THEN Append(l, rec) ELSE <<l[2], rec>>

-----------------------------------------------------------------------------
(* SpecRows: a drawable item fetching the rows of a slice of its store,   *)
(* as update_dirty_picture and the plot items do, on tables below, at and *)
(* above the level-of-detail threshold.                                   *)

(* a line table of n rows *)
ViewTable(n) ==
    [columns |-> LineCols, rows |-> [i \in 1..n |-> <<10 * i, 1 + (i % 7)>>]]

RowsLens ==
    {lod_candles - 1, lod_candles, lod_candles + 1, lod_candles + lod_candles \div 2,
     2 * lod_candles - 1, 2 * lod_candles, 2 * lod_candles + 1,
     3 * lod_candles - 1, 3 * lod_candles}

(* first and last row label of the slices asked for *)
RowsFrom == {0, 1, lod_candles}

RowsTo == {3 * lod_candles}

RowsScales == {[scaletype |-> "linear", scalef |-> 1], [scaletype |-> "linear", scalef |-> 100]}

InitRows ==
    /\ \E n \in RowsLens :
          ds = [s \in Stores |-> IF s = "A" THEN PandasDataSource(ViewTable(n), 0)
                                             ELSE PandasDataSource(ViewTable(1), 1)]
    /\ vb = [NoView EXCEPT !.datasrc = "A"]
    /\ drawn = NotDrawn
    /\ item = NoItem
    /\ call = NoCall
    /\ nupd = 0
    /\ nops = 0
    /\ log = <<>>
    /\ recency = [s \in Stores |-> <<>>]
    /\ evicted = {}

Rows(x0, x1, yscale, lod) ==
    /\ drawn' = rows(ds[vb.datasrc], 2, x0, x1, yscale, lod)
    /\ UNCHANGED <<ds, vb, item, call, nupd, nops, log, recency, evicted>>

NextRows ==
    \E x0 \in RowsFrom, x1 \in RowsTo, yscale \in RowsScales, lod \in BOOLEAN :
        Rows(x0, x1, yscale, lod)

SpecRows == InitRows /\ [][NextRows]_vars

-----------------------------------------------------------------------------
(* SpecMerge: three series plotted on one axis, as lines (plot) or as     *)
(* labels (a FinPlotItem), in any order, and updated with new data.  The  *)
(* first store plotted becomes the store of the axis, the others are      *)
(* merged into it by _set_datasrc.                                        *)

MergeStores == {"A", "B", "C"}

MergeCols == {<<"time", "c">>, <<"time", "c", "c+">>, <<"time", "d">>}

(* the times of the rows of each store's table, and of the tables it is   *)
(* updated with                                                           *)
MergeTimes == [A |-> <<10, 20>>, B |-> <<20, 30>>, C |-> <<10, 30>>]

UpdateTimes == <<20, 40>>

(* a table of distinct values: v tells the tables apart *)
MergeTable(cols, times, v) ==
    [columns |-> cols,
     rows    |-> [i \in 1..Len(times) |->
                    [j \in 1..Len(cols) |-> IF j = 1 THEN times[i] ELSE v + 10 * j + i]]]

StoreNo(s) == IF s = "A" THEN 1 ELSE IF s = "B" THEN 2 ELSE 3

InitMerge ==
    /\ \E cols \in [MergeStores -> MergeCols] :
          ds = [s \in MergeStores |->
                  PandasDataSource(MergeTable(cols[s], MergeTimes[s], 100 * StoreNo(s)),
                                   StoreNo(s) - 1)]
    /\ vb = NoView
    /\ drawn = NotDrawn
    /\ item = NoItem
    /\ call = NoCall
    /\ nupd = 0
    /\ nops = 0
    /\ log = <<>>
    /\ recency = [s \in MergeStores |-> <<>>]
    /\ evicted = {}

Plotted == {vb.items[i].datasrc : i \in 1..Len(vb.items)}

(* _set_datasrc(ax, datasrc) for a store that is not standalone *)
_set_datasrc(d, s) ==
    IF vb.datasrc = "None"
    THEN [d EXCEPT ![s] = update_init_x(d[s], vb.init_steps)]
    ELSE LET a    == vb.datasrc
             id   == FreshId(d)
             self == addcols_self(d[a], d[s], id)
             fins == {vb.items[i].datasrc : i \in {k \in 1..Len(vb.items) : vb.items[k].finplotitem}}
         IN  [t \in DOMAIN d |->
                IF t = a THEN update_init_x(self, vb.init_steps)
                ELSE IF t = s THEN addcols_other(d[a], d[s], id)
                ELSE IF t \in fins THEN [d[t] EXCEPT !.df = self.df, !.dfid = id]
                ELSE d[t]]

(* plot(x, y) or labels(x, y, labels) on the axis: the store, then        *)
(* _set_datasrc, then the item is added to the axis                       *)
PlotOn(s, finplotitem) ==
    /\ s \notin Plotted
    /\ ds' = _set_datasrc(IF finplotitem THEN [ds EXCEPT ![s].scale_cols = <<>>] ELSE ds, s)
    /\ vb' = [vb EXCEPT !.datasrc = IF vb.datasrc = "None" THEN s ELSE vb.datasrc,
                         !.items = Append(vb.items, [datasrc |-> s, finplotitem |-> finplotitem])]
    /\ log' = Push(log, [op |-> "_set_datasrc", a |-> <<s>>, pre |-> ds])
    /\ UNCHANGED <<drawn, item, call, nupd, nops, recency, evicted>>

(* item.update_data(table): item.datasrc.update of _update_data *)
UpdateData(s, new) ==
    /\ s \in Plotted
    /\ nupd < MaxUpdates
    /\ nupd' = nupd + 1
    /\ ds' = [ds EXCEPT ![s] = update_store(ds[s], new, FreshId(ds))]
    /\ log' = Push(log, [op |-> "update", a |-> <<s, new>>, pre |-> ds])
    /\ UNCHANGED <<vb, drawn, item, call, nops, recency, evicted>>

NextMerge ==
    \/ \E s \in MergeStores, finplotitem \in BOOLEAN : PlotOn(s, finplotitem)
    \/ \E s \in MergeStores, cols \in MergeCols :
          UpdateData(s, MergeTable(cols, UpdateTimes, 500))

SpecMerge == InitMerge /\ [][NextMerge]_vars

-----------------------------------------------------------------------------
(* SpecClamp: the "make edges rigid" lines of update_y_zoom applied to    *)
(* ranges of every kind (inside, outside, reversed, between cells), and   *)
(* applied again to the range they produced.                              *)

ClampLens == {0, 1, 3}

(* range edges in eighths of a row *)
ClampArgs == (0 - 12)..76

InitClamp ==
    /\ \E n \in ClampLens :
          ds = [s \in Stores |-> IF s = "A" THEN PandasDataSource(ViewTable(n), 0)
                                             ELSE PandasDataSource(ViewTable(1), 1)]
    /\ vb = [NoView EXCEPT !.datasrc = "A"]
    /\ drawn = NotDrawn
    /\ item = NoItem
    /\ call = NoCall
    /\ nupd = 0
    /\ nops = 0
    /\ log = <<>>
    /\ recency = [s \in Stores |-> <<>>]
    /\ evicted = {}

Clamp(x0n, x1n) ==
    /\ call = NoCall
    /\ call' = [op |-> "rigid_edges", x |-> <<x0n, x1n>>, d |-> 8, again |-> FALSE,
                out |-> rigid_edges(x0n, x1n, 8, xlen(ds[vb.datasrc]))]
    /\ UNCHANGED <<ds, vb, drawn, item, nupd, nops, log, recency, evicted>>

(* update_y_zoom() without arguments: the range it set before is made     *)
(* rigid again                                                            *)
ClampAgain ==
    /\ call.op = "rigid_edges"
    /\ call' = [op |-> "rigid_edges", x |-> call.out, d |-> 2, again |-> TRUE,
                out |-> rigid_edges(call.out[1], call.out[2], 2, xlen(ds[vb.datasrc]))]
    /\ UNCHANGED <<ds, vb, drawn, item, nupd, nops, log, recency, evicted>>

NextClamp ==
    \/ \E x0n \in ClampArgs, x1n \in ClampArgs : Clamp(x0n, x1n)
    \/ ClampAgain

SpecClamp == InitClamp /\ [][NextClamp]_vars

-----------------------------------------------------------------------------
(* SpecTime: _pdtime2index on an axis whose store has one, two or three   *)
(* samples, for one or two times before, at, between and after them.      *)
(* Epoch numbers are in units of 1e9, so that a millisecond epoch of the  *)
(* year 2001 is about 1000.                                               *)

(* 1e10: a largest time below it makes the times second epochs *)
s_epoch_limit == 10

(* 1e13: a largest time above it makes the times "ns" epochs *)
ns_epoch_limit == 10000

(* PandasDataSource.x: the time column *)
x_of(st) == [i \in 1..Len(st.df.rows) |-> st.df.rows[i][1]]

(* the conversion at the head of _pdtime2index, for numeric times *)
ts_epochs(ts) ==
    IF SetMax(Range(ts)) > ns_epoch_limit THEN [i \in 1..Len(ts) |-> ts[i] \div 1000]
    ELSE IF SetMax(Range(ts)) < s_epoch_limit THEN [i \in 1..Len(ts) |-> ts[i] * 1000]
    ELSE ts

(* lerp with its result clamped at the first sample *)
lerp_clamped(dtn, dtd, a, b) == <<Max2(dtn * b + (dtd - dtn) * a, 0), dtd>>

(* lerp with its two end values exchanged *)
lerp_swapped(dtn, dtd, a, b) == <<dtn * a + (dtd - dtn) * b, dtd>>

(* lerp(dt, a, b) = dt*b + (1-dt)*a for dt = dtn/dtd, as numerator and    *)
(* denominator                                                            *)
lerp(dtn, dtd, a, b) == <<dtn * b + (dtd - dtn) * a, dtd>>

(* the loop of _pdtime2index from the i-th time on (i as enumerate counts *)
(* it), r being the list built so far                                     *)
RECURSIVE _pdtime2index_loop(_, _, _, _)
_pdtime2index_loop(xs, ts, i, r) ==
    IF i >= Len(ts) THEN [raises |-> "none", r |-> r]
    ELSE
      LET t   == ts[i + 1]
          xss == {k \in 0..(Len(xs) - 1) : xs[k + 1] > t}
      IN  IF xss = {}
          THEN IF xs = <<>> THEN [raises |-> "IndexError", r |-> <<>>]
               ELSE IF xs[Len(xs)] = t
                    THEN _pdtime2index_loop(xs, ts, i + 1, Append(r, <<Len(xs) - 1, 1>>))
               ELSE IF i > 0 THEN _pdtime2index_loop(xs, ts, i + 1, r)
               ELSE [raises |-> "AssertionError", r |-> <<>>]
          ELSE LET first == SetMin(xss)
                   i0    == IF first - 1 < 0 THEN 0 ELSE first - 1
                   i1    == IF first - 1 < 0 THEN 1 ELSE first
               IN  IF i1 > Len(xs) - 1 THEN [raises |-> "KeyError", r |-> <<>>]
                   ELSE _pdtime2index_loop(xs, ts, i + 1,
                            Append(r, lerp(t - xs[i0 + 1], xs[i1 + 1] - xs[i0 + 1], i0, i1)))

_pdtime2index(st, ts) == _pdtime2index_loop(x_of(st), ts_epochs(ts), 0, <<>>)

(* the time columns of the axis: millisecond epochs *)
TimeAxes == {<<1010>>, <<1010, 1020>>, <<1010, 1020, 1040>>}

(* the times asked for: millisecond epochs before, at, between and after  *)
(* the samples, a second epoch and a "ns" epoch                           *)
TimeArgs == {1000, 1010, 1015, 1020, 1025, 1030, 1040, 1050, 1, 1030000}

TimeTable(xs) == [columns |-> LineCols, rows |-> [i \in 1..Len(xs) |-> <<xs[i], i>>]]

InitTime ==
    /\ \E xs \in TimeAxes :
          ds = [s \in Stores |-> IF s = "A" THEN PandasDataSource(TimeTable(xs), 0)
                                             ELSE PandasDataSource(ViewTable(1), 1)]
    /\ vb = [NoView EXCEPT !.datasrc = "A"]
    /\ drawn = NotDrawn
    /\ item = NoItem
    /\ call = NoCall
    /\ nupd = 0
    /\ nops = 0
    /\ log = <<>>
    /\ recency = [s \in Stores |-> <<>>]
    /\ evicted = {}

TimeToIndex(ts) ==
    /\ call' = [op |-> "_pdtime2index", ts |-> ts, out |-> _pdtime2index(ds[vb.datasrc], ts)]
    /\ UNCHANGED <<ds, vb, drawn, item, nupd, nops, log, recency, evicted>>

NextTime ==
    \E t \in TimeArgs : \E u \in TimeArgs \cup {0} :
        TimeToIndex(IF u = 0 THEN <<t>> ELSE <<t, u>>)

SpecTime == InitTime /\ [][NextTime]_vars

-----------------------------------------------------------------------------
(* SpecSignif: _update_significants on one axis for the stores plotted on *)
(* it.  Cell values and significant_eps are in units of 1e-8, so that the *)
(* default significant_eps is 1.                                          *)

(* significant_decimals = 8 *)
significant_decimals == 8

(* significant_eps = 1e-8 *)
significant_eps == 1

(* stand-in for the 1e30 that calc_significant_decimals writes over the   *)
(* differences below 1e-30                                                *)
absdiff_fill == 21000000

(* the number of decimal digits of d > 0, less one *)
RECURSIVE digits(_)
digits(d) == IF d < 10 THEN 0 ELSE 1 + digits(d \div 10)

RECURSIVE pow10(_)
pow10(e) == IF e = 0 THEN 1 ELSE 10 * pow10(e - 1)

(* the exponent '%.0e' prints for d units of 1e-8: that of d, one more    *)
(* when the leading digits round up to 10                                 *)
format_exp(d) ==
    IF d = absdiff_fill THEN 30
    ELSE IF digits(d) < 9 /\ 2 * d >= 19 * pow10(digits(d)) THEN digits(d) + 1 - 8
    ELSE digits(d) - 8

(* calc_significant_decimals: z if the store has several scale columns,   *)
(* else y; the absolute differences of neighbours, NaN where a neighbour  *)
(* is NaN or missing, zero replaced by 1e30; their minimum without the    *)
(* NaN.  int('') raises when the minimum is NaN, and the column lookup    *)
(* raises when the table has no such column.                              *)
calc_significant_decimals(st) ==
    LET c   == st.col_data_offset + (IF Len(st.scale_cols) > 1 THEN 1 ELSE 0) + 1
        col == [i \in 1..Len(st.df.rows) |-> st.df.rows[i][c]]
        absdiff == {IF col[i] = col[i - 1] THEN absdiff_fill ELSE Abs(col[i] - col[i - 1]) :
                        i \in {j \in 2..Len(col) : col[j] # NaN /\ col[j - 1] # NaN}}
    IN  IF c > Len(st.df.columns) THEN [raises |-> "IndexError"]
        ELSE IF absdiff = {} THEN [raises |-> "ValueError"]
        ELSE [raises |-> "none",
              decimals |-> Max2(1, Min2(10, 0 - format_exp(SetMin(absdiff)))),
              smallest_diff |-> SetMin(absdiff)]

(* the axis as _create_plot leaves it *)
NewAxis == [significant_decimals |-> significant_decimals, significant_eps |-> significant_eps]

(* the axis after _update_significants(ax, datasrc, force); the bare      *)
(* except swallows whatever calc_significant_decimals raises              *)
_update_significants(ax, st, force) ==
    LET default_dec == /\ 99 * significant_decimals < 100 * ax.significant_decimals
                       /\ 100 * ax.significant_decimals < 101 * significant_decimals
        default_eps == /\ 99 * significant_eps < 100 * ax.significant_eps
                       /\ 100 * ax.significant_eps < 101 * significant_eps
        res == calc_significant_decimals(st)
    IN  IF ~(force \/ (default_dec /\ default_eps)) \/ res.raises # "none" THEN ax
        ELSE [significant_decimals |->
                  IF default_dec \/ res.decimals > ax.significant_decimals
                  THEN res.decimals ELSE ax.significant_decimals,
              significant_eps |->
                  IF default_eps \/ res.smallest_diff < ax.significant_eps
                  THEN res.smallest_diff ELSE ax.significant_eps]

(* line columns: all NaN, constant, one row, and three with smallest      *)
(* differences 2e-7, 1e-8 and 0.02                                        *)
SignifLines ==
    {<<NaN, NaN, NaN>>, <<100000000, 100000000, 100000000>>, <<7>>,
     <<100, 150, 130>>, <<3, 4, 6>>, <<1000000, 3000000, 7000000>>}

(* candle tables: closes that vary by 0.005 and closes that are constant *)
SignifCandles ==
    {[columns |-> CandleCols, rows |-> <<<<10, 3000000, 4000000, 6000000, 2000000>>,
                                         <<20, 4000000, 4500000, 8000000, 3000000>>>>],
     [columns |-> CandleCols, rows |-> <<<<10, 3000000, 4000000, 6000000, 2000000>>,
                                         <<20, 4000000, 4000000, 8000000, 3000000>>>>]}

SignifTable(col) == [columns |-> LineCols, rows |-> [i \in 1..Len(col) |-> <<10 * i, col[i]>>]]

InitSignif ==
    /\ \E ta \in SignifCandles \cup {SignifTable(c) : c \in SignifLines} :
       \E cb \in SignifLines :
          ds = [s \in Stores |-> IF s = "A" THEN PandasDataSource(ta, 0)
                                             ELSE PandasDataSource(SignifTable(cb), 1)]
    /\ vb = NoView
    /\ drawn = NotDrawn
    /\ item = NoItem
    /\ call = NoCall
    /\ nupd = 0
    /\ nops = 0
    /\ log = <<>>
    /\ recency = [s \in Stores |-> <<>>]
    /\ evicted = {}

(* the axis of the model: new until the first call *)
Axis == IF call.op = "_update_significants" THEN call.ax ELSE NewAxis

(* the call plot() makes (force = False) or candlestick_ochl makes        *)
(* (force = True) for its store; ran tells whether the calculation was    *)
(* run (forced, or the axis still had both defaults)                      *)
UpdateSignificants(s, force) ==
    /\ call' = [op |-> "_update_significants", s |-> s, force |-> force, pre |-> Axis,
                ran |-> (force \/ Axis = NewAxis),
                ax |-> _update_significants(Axis, ds[s], force)]
    /\ UNCHANGED <<ds, vb, drawn, item, nupd, nops, log, recency, evicted>>

NextSignif == \E s \in Stores, force \in BOOLEAN : UpdateSignificants(s, force)

SpecSignif == InitSignif /\ [][NextSignif]_vars

-----------------------------------------------------------------------------
(* SpecLog: the log branch of update_y_zoom.  A float is kept by its kind *)
(* (nan, zero, finite, infinite), its sign and, when finite, its decimal  *)
(* exponent n/d: the value is sgn * 10^(n/d).  Products, quotients and    *)
(* powers of such values are again such values, so the branch is computed *)
(* exactly, up to the rounding of the last bits, which changes neither    *)
(* kind nor sign.                                                         *)

fnan == [k |-> "nan", sgn |-> 1, n |-> 0, d |-> 1]

fzero == [k |-> "zero", sgn |-> 1, n |-> 0, d |-> 1]

finf(sgn) == [k |-> "inf", sgn |-> sgn, n |-> 0, d |-> 1]

(* sgn * 10^(n/d), overflowing to infinity above 1e308 and underflowing   *)
(* to zero below 1e-324                                                   *)
ffin(sgn, n, d) ==
    IF n > 308 * d THEN finf(sgn)
    ELSE IF n < (0 - 324) * d THEN fzero
    ELSE [k |-> "fin", sgn |-> sgn, n |-> n, d |-> d]

fmul(a, b) ==
    IF a.k = "nan" \/ b.k = "nan" THEN fnan
    ELSE IF {a.k, b.k} = {"zero", "inf"} THEN fnan
    ELSE IF a.k = "zero" \/ b.k = "zero" THEN fzero
    ELSE IF a.k = "inf" \/ b.k = "inf" THEN finf(a.sgn * b.sgn)
    ELSE ffin(a.sgn * b.sgn, a.n * b.d + b.n * a.d, a.d * b.d)

(* numpy division: x/0 is an infinity or nan, with a warning, no error *)
fdiv(a, b) ==
    IF a.k = "nan" \/ b.k = "nan" THEN fnan
    ELSE IF a.k = b.k /\ a.k \in {"zero", "inf"} THEN fnan
    ELSE IF a.k = "zero" \/ b.k = "inf" THEN fzero
    ELSE IF b.k = "zero" \/ a.k = "inf" THEN finf(a.sgn * b.sgn)
    ELSE ffin(a.sgn * b.sgn, a.n * b.d - b.n * a.d, a.d * b.d)

(* a ** (pn/pd) for an exponent pn/pd >= 0: 1 for the exponent 0 whatever *)
(* a is, nan for a negative a and an exponent that is not whole           *)
fpow(a, pn, pd) ==
    LET whole == pn % pd = 0
        sgn   == IF a.sgn = 1 \/ (whole /\ (pn \div pd) % 2 = 0) THEN 1 ELSE 0 - 1
    IN  IF pn = 0 THEN ffin(1, 0, 1)
        ELSE IF a.k = "nan" THEN fnan
        ELSE IF a.k = "zero" THEN fzero
        ELSE IF a.k = "inf" THEN finf(IF whole THEN sgn ELSE 1)
        ELSE IF a.sgn < 0 /\ ~whole THEN fnan
        ELSE ffin(sgn, a.n * pn, a.d * pd)

(* a < b; false when either is nan *)
flt(a, b) ==
    LET s(v) == IF v.k = "zero" THEN 0 ELSE v.sgn
        maglt(u, v) == u.k = "fin" /\ (v.k = "inf" \/ u.n * v.d < v.n * u.d)
    IN  /\ a.k # "nan" /\ b.k # "nan"
        /\ \/ s(a) < s(b)
           \/ s(a) = 1 /\ s(b) = 1 /\ maglt(a, b)
           \/ s(a) = 0 - 1 /\ s(b) = 0 - 1 /\ maglt(b, a)

(* Python max(a, b) and min(a, b): the first argument unless the second   *)
(* compares greater (smaller)                                             *)
py_max(a, b) == IF flt(a, b) THEN b ELSE a

py_min(a, b) == IF flt(b, a) THEN b ELSE a

(* the log branch of update_y_zoom for v_zoom_scale = sn/sd and           *)
(* v_zoom_baseline = bn/bd: <<y0, y1>>                                    *)
log_range(hi, lo, sn, sd, bn, bd) ==
    LET lo1  == py_max(ffin(1, 0 - 100, 1), lo)
        rng  == py_min(fpow(fdiv(hi, lo1), sd, sn), ffin(1, 50, 1))
        base == fpow(fmul(hi, lo1), bn, bd)
    IN  <<fdiv(base, fpow(rng, bn, bd)), fmul(base, fpow(rng, bd - bn, bd))>>

(* YScale.invxform(y, verify=True) of a log scale: log10(y), or -1e6 for  *)
(* y <= 0, as numerator and denominator                                   *)
invxform_log(y) ==
    IF y.k = "zero" \/ y.sgn < 0 THEN <<0 - 1000000, 1>>
    ELSE IF y.k = "inf" THEN <<far, 1>>
    ELSE <<y.n, y.d>>

(* the Y-range set_range hands to setRange on a log scale, or "none" when *)
(* it returns early                                                       *)
set_range_log(y) ==
    IF y[1].k = "nan" \/ y[2].k = "nan" THEN "none"
    ELSE <<invxform_log(y[1]), invxform_log(y[2])>>

(* hi and lo of the rows in view: 100, 1, 1e60, 1e300, 1e-200, 0, -1, nan *)
LogValues ==
    {ffin(1, 2, 1), ffin(1, 0, 1), ffin(1, 60, 1), ffin(1, 300, 1), ffin(1, 0 - 200, 1),
     fzero, ffin(0 - 1, 0, 1), fnan}

(* v_zoom_scale: 0.97 of create_plot, 0.9 of labels, 0.6 of heatmap *)
LogScales == {<<97, 100>>, <<9, 10>>, <<3, 5>>}

(* v_zoom_baseline: 0.5 of FinViewBox, 0 of the volume and bar plots *)
LogBaselines == {<<1, 2>>, <<0, 1>>}

InitLog ==
    /\ ds = [s \in Stores |-> PandasDataSource(ViewTable(1), StoreNo(s) - 1)]
    /\ vb = [NoView EXCEPT !.datasrc = "A"]
    /\ drawn = NotDrawn
    /\ item = NoItem
    /\ call = NoCall
    /\ nupd = 0
    /\ nops = 0
    /\ log = <<>>
    /\ recency = [s \in Stores |-> <<>>]
    /\ evicted = {}

(* update_y_zoom on a log axis once hilo has returned hi and lo: lo is    *)
(* not above hi, and both are nan or neither                              *)
LogZoom(hi, lo, sc, bl) ==
    /\ ~flt(hi, lo)
    /\ hi.k = "nan" <=> lo.k = "nan"
    /\ call' = [op |-> "log_range", hi |-> hi, lo |-> lo, scale |-> sc, baseline |-> bl,
                y |-> log_range(hi, lo, sc[1], sc[2], bl[1], bl[2]),
                yr |-> set_range_log(log_range(hi, lo, sc[1], sc[2], bl[1], bl[2]))]
    /\ UNCHANGED <<ds, vb, drawn, item, nupd, nops, log, recency, evicted>>

NextLog ==
    \E hi \in LogValues, lo \in LogValues : \E sc \in LogScales, bl \in LogBaselines :
        LogZoom(hi, lo, sc, bl)

SpecLog == InitLog /\ [][NextLog]_vars

-----------------------------------------------------------------------------
(* IEEE double arithmetic.  A natural number of any size is a sequence of *)
(* limbs below 2^15, the least significant first, without leading zero    *)
(* limbs.  A finite double is [neg, m, e], of value (-1)^neg * m * 2^e    *)
(* with m a natural number below 2^53 that is odd or zero.  Sums,         *)
(* products and quotients are computed exactly and then rounded to 53     *)
(* bits, ties to even, as the hardware rounds them.  The values of the    *)
(* model stay far from the overflow and underflow thresholds.             *)

limb == 32768

limb_bits == 15

RECURSIVE bn(_)
bn(n) == IF n = 0 THEN <<>> ELSE <<n % limb>> \o bn(n \div limb)

RECURSIVE bn_trim(_)
bn_trim(a) ==
    IF a # <<>> /\ a[Len(a)] = 0 THEN bn_trim(SubSeq(a, 1, Len(a) - 1)) ELSE a

bn_limb(a, i) == IF i <= Len(a) THEN a[i] ELSE 0

RECURSIVE bn_add_from(_, _, _, _)
bn_add_from(a, b, i, c) ==
    IF i > Max2(Len(a), Len(b)) THEN (IF c = 0 THEN <<>> ELSE <<c>>)
    ELSE <<(bn_limb(a, i) + bn_limb(b, i) + c) % limb>>
             \o bn_add_from(a, b, i + 1, (bn_limb(a, i) + bn_limb(b, i) + c) \div limb)

bn_add(a, b) == bn_add_from(a, b, 1, 0)

(* a - b for a >= b *)
RECURSIVE bn_sub_from(_, _, _, _)
bn_sub_from(a, b, i, c) ==
    IF i > Len(a) THEN <<>>
    ELSE <<(bn_limb(a, i) - bn_limb(b, i) - c + limb) % limb>>
             \o bn_sub_from(a, b, i + 1, IF bn_limb(a, i) - bn_limb(b, i) - c < 0 THEN 1 ELSE 0)

bn_sub(a, b) == bn_trim(bn_sub_from(a, b, 1, 0))

(* -1, 0 or 1 as a is below, equal to or above b *)
RECURSIVE bn_cmp_from(_, _, _)
bn_cmp_from(a, b, i) ==
    IF i = 0 THEN 0
    ELSE IF a[i] < b[i] THEN 0 - 1
    ELSE IF a[i] > b[i] THEN 1
    ELSE bn_cmp_from(a, b, i - 1)

bn_cmp(a, b) ==
    IF Len(a) < Len(b) THEN 0 - 1
    ELSE IF Len(a) > Len(b) THEN 1
    ELSE bn_cmp_from(a, b, Len(a))

(* a * c + carry for a limb c *)
RECURSIVE bn_mul_small(_, _, _, _)
bn_mul_small(a, c, i, carry) ==
    IF i > Len(a) THEN (IF carry = 0 THEN <<>> ELSE <<carry>>)
    ELSE <<(a[i] * c + carry) % limb>> \o bn_mul_small(a, c, i + 1, (a[i] * c + carry) \div limb)

RECURSIVE bn_mul_from(_, _, _)
bn_mul_from(a, b, i) ==
    IF i > Len(b) THEN <<>>
    ELSE bn_add(bn_mul_small(a, b[i], 1, 0), <<0>> \o bn_mul_from(a, b, i + 1))

bn_mul(a, b) == bn_trim(bn_mul_from(a, b, 1))

(* a * 2^k *)
bn_shl(a, k) ==
    IF a = <<>> THEN <<>>
    ELSE [i \in 1..(k \div limb_bits) |-> 0] \o bn_mul_small(a, 2 ^ (k % limb_bits), 1, 0)

(* a \div 2^k *)
bn_shr(a, k) ==
    LET hi == SubSeq(a, k \div limb_bits + 1, Len(a))
        p  == 2 ^ (k % limb_bits)
    IN  bn_trim([i \in 1..Len(hi) |-> hi[i] \div p + (bn_limb(hi, i + 1) % p) * (limb \div p)])

(* the i-th bit of a, the least significant being bit 0 *)
bn_bit(a, i) == (bn_limb(a, i \div limb_bits + 1) \div 2 ^ (i % limb_bits)) % 2

(* the low k bits of a are all zero *)
bn_lowzero(a, k) ==
    /\ \A i \in 1..(k \div limb_bits) : bn_limb(a, i) = 0
    /\ bn_limb(a, k \div limb_bits + 1) % 2 ^ (k % limb_bits) = 0

RECURSIVE bits_of(_)
bits_of(n) == IF n = 0 THEN 0 ELSE 1 + bits_of(n \div 2)

(* the number of bits of a *)
bn_bits(a) == IF a = <<>> THEN 0 ELSE limb_bits * (Len(a) - 1) + bits_of(a[Len(a)])

(* the number of zero bits at the low end of n # 0 *)
RECURSIVE tz_of(_)
tz_of(n) == IF n % 2 = 1 THEN 0 ELSE 1 + tz_of(n \div 2)

(* the number of zero bits at the low end of a # 0 *)
RECURSIVE bn_tz(_)
bn_tz(a) == IF a[1] # 0 THEN tz_of(a[1]) ELSE limb_bits + bn_tz(Tail(a))

(* one step of the long division of a by b: qr holds the quotient and the *)
(* remainder of the bits of a above bit i, and bit i is brought down      *)
bn_divmod_bit(a, b, i, qr) ==
    LET r2 == bn_add(bn_add(qr[2], qr[2]), IF bn_bit(a, i) = 1 THEN <<1>> ELSE <<>>)
    IN  IF i < 0 THEN qr
        ELSE IF bn_cmp(r2, b) >= 0
        THEN <<bn_add(bn_add(qr[1], qr[1]), <<1>>), bn_sub(r2, b)>>
        ELSE <<bn_add(qr[1], qr[1]), r2>>

(* the long division from bit i down, five bits at a time *)
RECURSIVE bn_divmod_from(_, _, _, _)
bn_divmod_from(a, b, i, qr) ==
    IF i < 0 \/ bn_cmp(qr[2], b) >= 0 THEN qr
    ELSE bn_divmod_from(a, b, i - 5,
             bn_divmod_bit(a, b, i - 4, bn_divmod_bit(a, b, i - 3, bn_divmod_bit(a, b, i - 2,
                 bn_divmod_bit(a, b, i - 1, bn_divmod_bit(a, b, i, qr))))))

(* quotient and remainder of a by b # 0: the bits of a that cannot hold b *)
(* start as the remainder                                                 *)
bn_divmod(a, b) ==
    IF bn_bits(a) < bn_bits(b) THEN <<<<>>, a>>
    ELSE bn_divmod_from(a, b, bn_bits(a) - bn_bits(b),
                        <<<<>>, bn_shr(a, bn_bits(a) - bn_bits(b) + 1)>>)

(* the significand bits of a double *)
mant_bits == 53

dbl_zero == [neg |-> FALSE, m |-> <<>>, e |-> 0]

(* m * 2^e written with an odd m *)
dbl_norm(neg, m, e) ==
    IF m = <<>> THEN dbl_zero
    ELSE [neg |-> neg, m |-> bn_shr(m, bn_tz(m)), e |-> e + bn_tz(m)]

(* (-1)^neg * m * 2^e rounded to the nearest double, ties to even *)
fl(neg, m, e) ==
    LET k  == bn_bits(m) - mant_bits
        q  == bn_shr(m, k)
        up == /\ bn_bit(m, k - 1) = 1
              /\ (~bn_lowzero(m, k - 1) \/ bn_bit(q, 0) = 1)
    IN  IF k <= 0 THEN dbl_norm(neg, m, e)
        ELSE dbl_norm(neg, IF up THEN bn_add(q, <<1>>) ELSE q, e + k)

(* the double n * 2^e for an integer n *)
dbl(n, e) == fl(n < 0, bn(Abs(n)), e)

dbl_neg(a) == IF a.m = <<>> THEN a ELSE [a EXCEPT !.neg = ~a.neg]

(* a + b exactly: sign, natural number and exponent *)
dbl_sum(a, b) ==
    LET e  == Min2(a.e, b.e)
        ma == bn_shl(a.m, a.e - e)
        mb == bn_shl(b.m, b.e - e)
    IN  IF a.neg = b.neg THEN [neg |-> a.neg, m |-> bn_add(ma, mb), e |-> e]
        ELSE IF bn_cmp(ma, mb) >= 0 THEN [neg |-> a.neg, m |-> bn_sub(ma, mb), e |-> e]
        ELSE [neg |-> b.neg, m |-> bn_sub(mb, ma), e |-> e]

dbl_add(a, b) == fl(dbl_sum(a, b).neg, dbl_sum(a, b).m, dbl_sum(a, b).e)

dbl_sub(a, b) == dbl_add(a, dbl_neg(b))

dbl_mul(a, b) == fl(a.neg # b.neg, bn_mul(a.m, b.m), a.e + b.e)

(* a / b for b # 0: the quotient to 55 bits or more, and one more bit     *)
(* that tells whether a remainder was left                                *)
dbl_div(a, b) ==
    LET s  == Max2(0, mant_bits + 2 + bn_bits(b.m) - bn_bits(a.m))
        qr == bn_divmod(bn_shl(a.m, s), b.m)
    IN  IF a.m = <<>> THEN dbl_zero
        ELSE fl(a.neg # b.neg,
                bn_add(bn_add(qr[1], qr[1]), IF qr[2] = <<>> THEN <<>> ELSE <<1>>),
                a.e - b.e - s - 1)

(* a < b *)
dbl_lt(a, b) == dbl_sum(a, dbl_neg(b)).m # <<>> /\ dbl_sum(a, dbl_neg(b)).neg

(* Python max(a, b) *)
dbl_max(a, b) == IF dbl_lt(a, b) THEN b ELSE a

-----------------------------------------------------------------------------
(* SpecScale: the YScale of one axis under create_plot, _create_datasrc   *)
(* and set_yscale, and its two conversions.  A value in natural units is  *)
(* a float of SpecLog, sgn * 10^(n/d); a view coordinate of a log scale   *)
(* is the number n/d itself, kept as [k |-> "rat", n, d].                 *)

YScale(scaletype, scalef) == [scaletype |-> scaletype, scalef |-> scalef]

(* int(1e8) of _create_datasrc *)
big_scale == 100000000

(* YScale.set_scale *)
set_scale(ys, scale) ==
    [ys EXCEPT !.scalef = IF ys.scaletype # "log" THEN scale ELSE 1]

(* scalef as a float: 1 or 1e8 *)
fscalef(ys) == IF ys.scalef = 1 THEN ffin(1, 0, 1) ELSE ffin(1, 8, 1)

(* YScale.xform(y) for a view coordinate y: 10**y * scalef on a log       *)
(* scale, y * scalef on a linear one                                      *)
yscale_xform(ys, v) ==
    IF ys.scaletype = "log" THEN fmul(ffin(1, v.n, v.d), fscalef(ys))
    ELSE fmul(v, fscalef(ys))

(* YScale.invxform(y) for y > 0 in natural units: log10(y) on a log       *)
(* scale, y / scalef on a linear one                                      *)
yscale_invxform(ys, y) ==
    IF ys.scaletype = "log" THEN [k |-> "rat", n |-> y.n, d |-> y.d]
    ELSE fdiv(y, fscalef(ys))

ScaleTypes == {"linear", "log"}

(* natural values y > 0: 0.001, 1, sqrt(10), 100, 1e8, 3.16e8, 1e9 *)
ScaleValues ==
    {ffin(1, 0 - 3, 1), ffin(1, 0, 1), ffin(1, 1, 2), ffin(1, 2, 1), ffin(1, 8, 1),
     ffin(1, 17, 2), ffin(1, 9, 1)}

InitScale == InitLog

(* create_plot(yscale=t): the axis gets a viewbox with YScale(t, 1) *)
CreatePlot(t) ==
    /\ vb' = [vb EXCEPT !.yscale = YScale(t, 1)]
    /\ log' = Push(log, [op |-> "create_plot", a |-> <<t>>])
    /\ UNCHANGED <<ds, drawn, item, call, nupd, nops, recency, evicted>>

(* _create_datasrc(ax, data): set_scale(1e8) when the largest value of    *)
(* the data columns is above 1e8                                          *)
CreateDatasrc(above) ==
    /\ vb' = [vb EXCEPT !.yscale = IF above THEN set_scale(vb.yscale, big_scale) ELSE vb.yscale]
    /\ log' = Push(log, [op |-> "_create_datasrc", a |-> <<above>>])
    /\ UNCHANGED <<ds, drawn, item, call, nupd, nops, recency, evicted>>

(* set_yscale(t) *)
SetYscale(t) ==
    /\ vb' = [vb EXCEPT !.yscale = YScale(t, vb.yscale.scalef)]
    /\ log' = Push(log, [op |-> "set_yscale", a |-> <<t>>])
    /\ UNCHANGED <<ds, drawn, item, call, nupd, nops, recency, evicted>>

(* xform(invxform(y)) on the YScale of the axis *)
RoundTrip(y) ==
    /\ call' = [op |-> "xform_invxform", y |-> y, yscale |-> vb.yscale,
                v |-> yscale_invxform(vb.yscale, y),
                out |-> yscale_xform(vb.yscale, yscale_invxform(vb.yscale, y))]
    /\ UNCHANGED <<ds, vb, drawn, item, nupd, nops, log, recency, evicted>>

NextScale ==
    \/ \E t \in ScaleTypes : CreatePlot(t)
    \/ \E above \in BOOLEAN : CreateDatasrc(above)
    \/ \E t \in ScaleTypes : SetYscale(t)
    \/ \E y \in ScaleValues : RoundTrip(y)

SpecScale == InitScale /\ [][NextScale]_vars

-----------------------------------------------------------------------------
(* SpecLin: the linear branch of update_y_zoom in double arithmetic.      *)

(* 2e-7 = 944473296573929 * 2^-72 *)
two_e_7 == [neg |-> FALSE, m |-> <<5609, 9903, 27641, 26>>, e |-> 0 - 72]

(* 0.97 = 4368491638549381 * 2^-52 *)
dbl_0_97 == [neg |-> FALSE, m |-> <<27525, 28835, 5242, 124>>, e |-> 0 - 52]

(* 0.9 = 8106479329266893 * 2^-53 *)
dbl_0_9 == [neg |-> FALSE, m |-> <<19661, 6553, 13107, 230>>, e |-> 0 - 53]

(* 0.6 = 5404319552844595 * 2^-53 *)
dbl_0_6 == [neg |-> FALSE, m |-> <<13107, 26214, 19660, 153>>, e |-> 0 - 53]

(* 0.1 = 3602879701896397 * 2^-55 *)
dbl_0_1 == [neg |-> FALSE, m |-> <<19661, 6553, 13107, 102>>, e |-> 0 - 55]

(* the linear branch of update_y_zoom: <<y0, y1>> *)
lin_range(hi, lo, v_zoom_scale, v_zoom_baseline) ==
    LET rng  == dbl_max(dbl_div(dbl_sub(hi, lo), v_zoom_scale), two_e_7)
        base == dbl_mul(dbl_add(hi, lo), v_zoom_baseline)
    IN  <<dbl_sub(base, dbl_mul(rng, v_zoom_baseline)),
          dbl_add(base, dbl_mul(rng, dbl_sub(dbl(1, 0), v_zoom_baseline)))>>

(* hi and lo: 0, 1, 3, 100.5, -5, 0.1, 2^30, 1e9 and 4e9 *)
LinValues ==
    {dbl_zero, dbl(1, 0), dbl(3, 0), dbl(201, 0 - 1), dbl(0 - 5, 0), dbl_0_1,
     dbl(1, 30), dbl(1953125, 9), dbl(1953125, 11)}

(* v_zoom_scale: 1 of FinViewBox, 0.97 of create_plot, 0.9 of labels, 0.6 *)
(* of heatmap, 0.25 of overlay                                            *)
LinScales == {dbl(1, 0), dbl_0_97, dbl_0_9, dbl_0_6, dbl(1, 0 - 2)}

(* v_zoom_baseline: 0.5 of FinViewBox, 0 of the volume and bar plots *)
LinBaselines == {dbl(1, 0 - 1), dbl_zero}

InitLin == InitLog

(* update_y_zoom on a linear axis once hi and lo are known: hilo's, or    *)
(* the bottom and top of the view when v_autozoom is off                  *)
LinZoom(hi, lo, sc, bl) ==
    /\ call = NoCall
    /\ call' = [op |-> "lin_range", hi |-> hi, lo |-> lo, scale |-> sc, baseline |-> bl,
                y |-> lin_range(hi, lo, sc, bl)]
    /\ UNCHANGED <<ds, vb, drawn, item, nupd, nops, log, recency, evicted>>

NextLin ==
    \E hi \in LinValues, lo \in LinValues : \E sc \in LinScales, bl \in LinBaselines :
        LinZoom(hi, lo, sc, bl)

SpecLin == InitLin /\ [][NextLin]_vars

-----------------------------------------------------------------------------
(* SpecPicture: the cached picture of one FinPlotItem.  A rectangle is    *)
(* kept as QRectF keeps it, by its left edge and its width, both doubles. *)

cache_candle_factor == 3

(* QRectF.right() *)
right(r) == dbl_add(r.left, r.width)

(* the test of update_dirty_picture *)
picture_stale(it, visibleRect) ==
    \/ it.dirty
    \/ /\ it.lod
       /\ \/ dbl_lt(visibleRect.left, it.cachedRect.left)
          \/ dbl_lt(right(it.cachedRect), right(visibleRect))
          \/ dbl_lt(visibleRect.width,
                    dbl_div(it.cachedRect.width, dbl(cache_candle_factor, 0)))

(* the item after _generate_picture(boundingRect) *)
_generate_picture(it, boundingRect) ==
    [lod |-> it.lod, dirty |-> FALSE,
     cachedRect |-> [left  |-> dbl_sub(boundingRect.left, boundingRect.width),
                     width |-> dbl_mul(dbl(cache_candle_factor, 0), boundingRect.width)]]

(* the item after update_dirty_picture(visibleRect) *)
update_dirty_picture(it, visibleRect) ==
    IF picture_stale(it, visibleRect) THEN _generate_picture(it, visibleRect) ELSE it

(* left edges of the view: -0.5, 14.5, 64.5 and 14.3 *)
PictureLefts ==
    {dbl(0 - 1, 0 - 1), dbl(29, 0 - 1), dbl(129, 0 - 1), dbl_sub(dbl(29, 0 - 1), dbl_mul(dbl(2, 0), dbl_0_1))}

(* widths of the view: 50, 25, 10, 150, 0.1 and 25.1 rows *)
PictureWidths ==
    {dbl(50, 0), dbl(25, 0), dbl(10, 0), dbl(150, 0), dbl_0_1, dbl_add(dbl(25, 0), dbl_0_1)}

InitPicture ==
    /\ ds = [s \in Stores |-> PandasDataSource(ViewTable(1), StoreNo(s) - 1)]
    /\ vb = [NoView EXCEPT !.datasrc = "A"]
    /\ drawn = NotDrawn
    /\ \E lod \in BOOLEAN : item = [NoItem EXCEPT !.lod = lod]
    /\ call = NoCall
    /\ nupd = 0
    /\ nops = 0
    /\ log = <<>>
    /\ recency = [s \in Stores |-> <<>>]
    /\ evicted = {}

(* paint(): update_dirty_picture(self.viewRect()) *)
Paint(left, width) ==
    LET visibleRect == [left |-> left, width |-> width]
    IN  /\ item' = update_dirty_picture(item, visibleRect)
        /\ call' = [op |-> "update_dirty_picture", visibleRect |-> visibleRect, pre |-> item,
                    regenerated |-> picture_stale(item, visibleRect)]
        /\ UNCHANGED <<ds, vb, drawn, nupd, nops, log, recency, evicted>>

(* repaint() and update_data set the dirty flag *)
SetDirty ==
    /\ ~item.dirty
    /\ item' = [item EXCEPT !.dirty = TRUE]
    /\ call' = [op |-> "dirty"]
    /\ UNCHANGED <<ds, vb, drawn, nupd, nops, log, recency, evicted>>

NextPicture ==
    \/ \E left \in PictureLefts, width \in PictureWidths : Paint(left, width)
    \/ SetDirty

SpecPicture == InitPicture /\ [][NextPicture]_vars

-----------------------------------------------------------------------------
(* SpecView: one axis showing one store; show(), then pan and zoom calls. *)

(* table lengths and init_zoom_periods of the views checked *)
ViewLens == {40, 60}

ViewInitSteps == {50, far}

(* scale factors of zoom_rect, as numerator and denominator *)
ZoomScales == {<<1, 2>>, <<2, 1>>}

(* how many pan and zoom calls a behaviour makes at most *)
MaxOps == 3

InitView ==
    /\ \E n \in ViewLens, st \in ViewInitSteps :
          /\ ds = [s \in Stores |->
                     IF s = "A" THEN update_init_x(PandasDataSource(ViewTable(n), 0), st)
                     ELSE PandasDataSource(ViewTable(1), 1)]
          /\ vb = [FinViewBox(st) EXCEPT !.datasrc = "A"]
    /\ drawn = NotDrawn
    /\ item = NoItem
    /\ call = NoCall
    /\ nupd = 0
    /\ nops = 0
    /\ log = <<>>
    /\ recency = [s \in Stores |-> <<>>]
    /\ evicted = {}

(* show(): update_y_zoom(init_x0, init_x1), then the event loop runs *)
Show ==
    /\ ~vb.shown
    /\ LET e == rigid_edges(ds[vb.datasrc].init_x0, ds[vb.datasrc].init_x1, 2,
                            xlen(ds[vb.datasrc]))
       IN  /\ hilo(vb.datasrc, e[1], e[2])
           /\ vb' = [update_y_zoom_vb(hilo_value(ds[vb.datasrc], e[1], e[2]), e)
                        EXCEPT !.shown = TRUE]
    /\ UNCHANGED <<drawn, item, call, nupd, nops, log>>

Interact(rec) ==
    /\ vb.shown
    /\ nops < MaxOps
    /\ nops' = nops + 1
    /\ log' = Push(log, rec)
    /\ UNCHANGED <<drawn, item, call, nupd>>

PanSteps(steps) ==
    /\ Interact([op |-> "pan_x", a |-> <<steps>>, pre |-> vb.tr])
    /\ LET r == pan_x_range(vb.tr, steps, xlen(ds[vb.datasrc]))
       IN  update_y_zoom(r[1], r[2], 2)

PanPercent(percent) ==
    /\ Interact([op |-> "pan_x", a |-> <<pan_x_steps(vb.tr, percent)>>, pre |-> vb.tr])
    /\ LET r == pan_x_range(vb.tr, pan_x_steps(vb.tr, percent), xlen(ds[vb.datasrc]))
       IN  update_y_zoom(r[1], r[2], 2)

ZoomRect(sc, c8) ==
    /\ Interact([op |-> "zoom_rect", a |-> <<sc[1], sc[2], c8>>, pre |-> vb.tr])
    /\ LET r == zoom_rect_range(vb.tr, sc[1], sc[2], c8)
       IN  update_y_zoom(r[1], r[2], 8 * sc[2])

(* the pivot at k quarters of the visible width, in eighths *)
PivotAt(k) == 4 * vb.tr[1] + k * (vb.tr[2] - vb.tr[1])

(* the last call was a zoom and its pivot is still in view *)
CanRepeatPivot ==
    /\ log # <<>>
    /\ log[Len(log)].op = "zoom_rect"
    /\ 4 * vb.tr[1] <= log[Len(log)].a[3]
    /\ log[Len(log)].a[3] <= 4 * vb.tr[2]

NextView ==
    \/ Show
    \/ \E steps \in {0 - far, far, 0 - 5} : PanSteps(steps)
    \/ \E percent \in {0 - 30, 0 - 15, 15, 30} : PanPercent(percent)
    \/ \E sc \in ZoomScales, k \in 0..4 : ZoomRect(sc, PivotAt(k))
    \/ \E sc \in ZoomScales : CanRepeatPivot /\ ZoomRect(sc, log[Len(log)].a[3])

SpecView == InitView /\ [][NextView]_vars

-----------------------------------------------------------------------------
(* SpecWheel: the axis of SpecView under mouse-wheel zooms (wheelEvent    *)
(* with no modifier key) and pans.  The mouse position is given by the    *)
(* view coordinate it maps to, in eighths of a row.                       *)

(* wheelEvent without its two snaps of the pivot to an edge *)
wheel_center_unsnapped(tr, c8) == c8

(* the pivot wheelEvent hands to zoom_rect for the view range tr (halves) *)
(* and the mouse at c8/8: the left edge when (c - left)/width < 0.05, the *)
(* right edge when it is > 0.95                                           *)
wheel_center(tr, c8) ==
    IF 5 * (c8 - 4 * tr[1]) < tr[2] - tr[1] THEN 4 * tr[1]
    ELSE IF 5 * (c8 - 4 * tr[1]) > 19 * (tr[2] - tr[1]) THEN 4 * tr[2]
    ELSE c8

(* scale factors 1.02 ** (delta * wheelScaleFactor) of wheelEvent *)
WheelScales == {<<1, 2>>, <<3, 4>>, <<2, 1>>}

(* mouse positions: on an edge of the view, one and two rows inside it,   *)
(* and in the middle                                                      *)
WheelPositions(tr) ==
    {4 * tr[1], 4 * tr[1] + 8, 4 * tr[1] + 16, 2 * (tr[1] + tr[2]),
     4 * tr[2] - 16, 4 * tr[2] - 8, 4 * tr[2]}

(* a table of n rows whose close rises by 1 every second row, so that the  *)
(* hi and lo of a range tell where it lies                                *)
WheelTable(n) ==
    [columns |-> LineCols, rows |-> [i \in 1..n |-> <<10 * i, (i + 1) \div 2>>]]

InitWheel ==
    /\ \E n \in ViewLens, st \in ViewInitSteps :
          /\ ds = [s \in Stores |->
                     IF s = "A" THEN update_init_x(PandasDataSource(WheelTable(n), 0), st)
                     ELSE PandasDataSource(ViewTable(1), 1)]
          /\ vb = [FinViewBox(st) EXCEPT !.datasrc = "A"]
    /\ drawn = NotDrawn
    /\ item = NoItem
    /\ call = NoCall
    /\ nupd = 0
    /\ nops = 0
    /\ log = <<>>
    /\ recency = [s \in Stores |-> <<>>]
    /\ evicted = {}

(* wheelEvent; (center.x()-vr.left())/vr.width() needs a view of width    *)
(* other than 0.  The record of the call tells whether update_y_zoom      *)
(* returned early.                                                        *)
WheelEvent(sc, c8) ==
    /\ vb.tr[2] > vb.tr[1]
    /\ LET r == zoom_rect_range(vb.tr, sc[1], sc[2], wheel_center(vb.tr, c8))
           e == rigid_edges(r[1], r[2], 8 * sc[2], xlen(ds[vb.datasrc]))
       IN  /\ Interact([op |-> "wheelEvent", a |-> <<sc[1], sc[2], c8>>, pre |-> vb.tr,
                        preyr |-> vb.yr, asked |-> r,
                        skipped |-> zoom_skipped(hilo_value(ds[vb.datasrc], e[1], e[2])[5], vb.tr)])
           /\ update_y_zoom(r[1], r[2], 8 * sc[2])

NextWheel ==
    \/ Show
    \/ \E steps \in {0 - far, 0 - 5} : PanSteps(steps)
    \/ \E sc \in WheelScales : \E c8 \in WheelPositions(vb.tr) : WheelEvent(sc, c8)

SpecWheel == InitWheel /\ [][NextWheel]_vars

-----------------------------------------------------------------------------
(* Claims about the viewport *)

Last == log[Len(log)]

Width(tr) == tr[2] - tr[1]

(* the right-hand bound of the visible range, in halves: len(data) - 0.5  *)
(* + right_margin_candles                                                 *)
RightBound == 2 * (Len(ds["A"].df.rows) + 5) - 1

(* C4: after any sequence of pan_x, zoom_rect and update_y_zoom calls,    *)
(* every visible X-range the viewport sets has x0 >= -0.5 and             *)
(* x1 <= len(data) - 0.5 + right_margin_candles.                          *)
C4_XRangeInBounds == vb.tr[1] >= 0 - 1 /\ vb.tr[2] <= RightBound

(* a zoom asked for a right edge past the bound and the viewport set a    *)
(* range ending at the bound                                              *)
C4_Witness ==
    /\ log # <<>>
    /\ Last.op = "zoom_rect"
    /\ zoom_rect_range(Last.pre, Last.a[1], Last.a[2], Last.a[3])[2] > 4 * Last.a[2] * RightBound
    /\ vb.tr # Last.pre
    /\ vb.tr[2] = RightBound

(* C8: pan_x(steps=+1e10), from any visible range, snaps the visible      *)
(* right edge to exactly len(data) - 0.5 + right_margin_candles.          *)
C8_PanToEndSnaps ==
    (log # <<>> /\ Last.op = "pan_x" /\ Last.a[1] = far) => vb.tr[2] = RightBound

(* the last two calls were zoom_rect by 0.5 around one pivot, the first   *)
(* of them on a window 50 rows wide                                       *)
ZoomedInTwice ==
    /\ Len(log) = 2
    /\ log[1].op = "zoom_rect" /\ log[2].op = "zoom_rect"
    /\ log[1].a = log[2].a
    /\ log[1].a[1] = 1 /\ log[1].a[2] = 2
    /\ Width(log[1].pre) = 2 * 50

(* C9 as stated: two zooms by 0.5 of a 50-row window at one pivot leave a *)
(* width of 50 x 0.25 rows, or of max_zoom_points rows when 50 x 0.25 is  *)
(* less than that.                                                        *)
C9_AsStated ==
    ZoomedInTwice =>
        IF 50 < 4 * max_zoom_points THEN Width(vb.tr) = 2 * max_zoom_points
        ELSE 4 * Width(vb.tr) = 2 * 50

(* C9 amended: the second of the two zooms is skipped (the 12.5 rows it   *)
(* asks for hold fewer than max_zoom_points rows and fewer than the       *)
(* current width), so the width stays what the first zoom left: 50 x 0.5  *)
(* rows with both edges on cell boundaries, 25 or 26 rows.                *)
C9_SecondZoomSkipped ==
    ZoomedInTwice => /\ vb.tr = log[2].pre
                     /\ Width(vb.tr) \in {2 * 25, 2 * 26}

(* two zooms by 0.5 of a 50-row window whose first zoom had to round an   *)
(* edge outwards                                                          *)
C9_Witness ==
    /\ ZoomedInTwice
    /\ log[2].pre # log[1].pre
    /\ Width(vb.tr) = 2 * 26

(* the range the call rec asked update_y_zoom for reaches past a data bound *)
AskedPastBounds(rec) ==
    LET r == zoom_rect_range(rec.pre, rec.a[1], rec.a[2], rec.a[3])
    IN  r[1] < 0 - 4 * rec.a[2] \/ r[2] > 4 * rec.a[2] * RightBound

(* the last two calls were zoom_rect by s and by 1/s around one pivot *)
ZoomedAndBack ==
    /\ Len(log) = 2
    /\ log[1].op = "zoom_rect" /\ log[2].op = "zoom_rect"
    /\ log[1].a[3] = log[2].a[3]
    /\ log[1].a[1] = log[2].a[2] /\ log[1].a[2] = log[2].a[1]

(* both of the last two calls set a range, and neither asked for one past *)
(* a data bound                                                           *)
BothZoomsApplied ==
    /\ log[2].pre # log[1].pre /\ vb.tr # log[2].pre
    /\ ~AskedPastBounds(log[1]) /\ ~AskedPastBounds(log[2])

(* C10 as stated: zoom_rect by s around p, then zoom_rect by 1/s around   *)
(* p, returns the X-range the viewport had before the first zoom.         *)
C10_AsStated ==
    ZoomedAndBack => vb.tr = log[1].pre

(* C10 amended: when both zooms set a range and neither asked for one     *)
(* past a data bound, each edge ends within 1 + 1/s rows of where it was  *)
(* before the first zoom: update_y_zoom moves both edges of every range   *)
(* to cell boundaries, so the range does not return to within 1e-6.       *)
C10_BackWithinRounding ==
    (ZoomedAndBack /\ BothZoomsApplied) =>
        \A i \in 1..2 :
            Abs(vb.tr[i] - log[1].pre[i]) * log[1].a[1] <= 2 * (log[1].a[1] + log[1].a[2])

(* a zoom by 0.5 and a zoom by 2 around one pivot, both applied, that end *)
(* one row away from the range they started from                          *)
C10_Witness ==
    /\ ZoomedAndBack
    /\ BothZoomsApplied
    /\ vb.tr # log[1].pre

-----------------------------------------------------------------------------
(* Claims about the level-of-detail rows *)

(* C5: rows()/_rows with lod enabled returns at most lod_candles rows     *)
(* whenever the slice holds more than lod_candles rows, and exactly the   *)
(* rows of the slice when it holds lod_candles rows or fewer.             *)
C5_RowsBounded ==
    /\ (drawn.lod /\ drawn.origlen > lod_candles) => Len(drawn.df) <= lod_candles
    /\ (drawn.lod /\ drawn.origlen <= lod_candles) => Len(drawn.df) = drawn.origlen

-----------------------------------------------------------------------------
(* Claims about the rigid-edge clamp *)

(* C11: the rigid-edge clamp of update_y_zoom is idempotent: applied to a *)
(* range it has itself produced it returns the same range, for every data *)
(* length and every input range.                                          *)
C11_ClampIdempotent ==
    (call.op = "rigid_edges" /\ call.again) => call.out = call.x

(* the clamp applied again to a range it had cut at both data bounds *)
C11_Witness ==
    /\ call.op = "rigid_edges" /\ call.again
    /\ call.x = <<0 - 1, 2 * xlen(ds[vb.datasrc]) - 1>>
    /\ call.out = call.x

-----------------------------------------------------------------------------
(* Claims about merging and updating stores *)

(* the last call merged the store Last.a[1] into the store of the axis *)
Merged == log # <<>> /\ Last.op = "_set_datasrc" /\ Len(vb.items) >= 2

(* n is c with one or more '+' appended *)
Plussed(c, n) == n \in {c \o "+", c \o "++", c \o "+++"}

(* the name the j-th data column of the store merged last had before the  *)
(* merge, and the name it has in the unified table                        *)
NameBefore(j) == Last.pre[Last.a[1]].df.columns[j + 1]

NameAfter(j) == ds[Last.a[1]].df.columns[ds[Last.a[1]].col_data_offset + j]

(* C14: after addcols merged B into A, every column of B whose name was   *)
(* a column of A has that name with '+' appended, B.renames maps the old  *)
(* name to the new one, and no two columns of B have the same new name.   *)
C14_RenamesReversible ==
    Merged =>
        LET A == Last.pre[vb.datasrc]
            B == ds[Last.a[1]]
            n == Len(Last.pre[Last.a[1]].df.columns) - 1
        IN  /\ \A j \in 1..n :
                  NameBefore(j) \in Range(A.df.columns) =>
                      /\ Plussed(NameBefore(j), NameAfter(j))
                      /\ NameBefore(j) \in DOMAIN B.renames
                      /\ B.renames[NameBefore(j)] = NameAfter(j)
            /\ \A i \in 1..n, j \in 1..n : i # j => NameAfter(i) # NameAfter(j)

(* the columns (positions) of the table of store s that hold values of    *)
(* the table s was created from                                           *)
OwnCols(s) ==
    {k \in 2..Len(ds[s].df.columns) :
        \E r \in 1..Len(ds[s].df.rows) :
            ds[s].df.rows[r][k] # NaN /\ ds[s].df.rows[r][k] \div 100 = StoreNo(s)}

(* C15: after any sequence of merges into the store A of the axis, A and  *)
(* every store merged into A reference the same table, and each merged    *)
(* store's col_data_offset and scale_cols index its own columns in it.    *)
C15_MergedStoresAlias ==
    (nupd = 0 /\ vb.datasrc # "None") =>
        \A s \in Plotted :
            /\ ds[s].dfid = ds[vb.datasrc].dfid
            /\ s # vb.datasrc =>
                  /\ OwnCols(s) = (ds[s].col_data_offset + 1)
                                   ..(ds[s].col_data_offset + Cardinality(OwnCols(s)))
                  /\ \A j \in 1..Len(ds[s].scale_cols) : ds[s].scale_cols[j] + 1 \in OwnCols(s)

(* the last call was item.update_data: the store before and after it and  *)
(* the table it was given                                                 *)
Updated == log # <<>> /\ Last.op = "update"

(* the rows (positions) of table df whose time is t *)
RowsAt(df, t) == {r \in 1..Len(df.rows) : df.rows[r][1] = t}

(* C16: update(newTable) leaves the column names and their order as they  *)
(* were, fills the columns the new table has (after the rename map) with  *)
(* the new values, and keeps, for every column only the old table has,    *)
(* the old values at every timestamp present in both tables.              *)
C16_UpdateKeepsColumns ==
    Updated =>
        LET old  == Last.pre[Last.a[1]]
            new  == Last.a[2]
            cur  == ds[Last.a[1]]
            name(j) == renames_get(old.renames, new.columns[j])
            incoming == {name(j) : j \in 2..Len(new.columns)}
        IN  /\ cur.df.columns = old.df.columns
            /\ \A j \in 2..Len(new.columns) : \A k \in 2..Len(cur.df.columns) :
                  cur.df.columns[k] = name(j) =>
                      \A r \in 1..Len(new.rows) :
                          \A q \in RowsAt(cur.df, new.rows[r][1]) :
                              cur.df.rows[q][k] = new.rows[r][j]
            /\ \A k \in 2..Len(old.df.columns) :
                  old.df.columns[k] \notin incoming =>
                      \A r \in 1..Len(old.df.rows) :
                          \A q \in RowsAt(cur.df, old.df.rows[r][1]) :
                              /\ k <= Len(cur.df.rows[q])
                              /\ cur.df.rows[q][k] = old.df.rows[r][k]

-----------------------------------------------------------------------------
(* Claims about empty row ranges *)

(* C17: a hilo query whose row range holds no row of the table (the table *)
(* is empty, or the range is reversed, before the first row or wholly     *)
(* past the last row) returns (0,0,0,0,0), and update_y_zoom leaves the   *)
(* Y-range of the viewbox as it is when hilo gives it that result.        *)
C17_EmptyRangeIsZero ==
    \A x0h \in ArgRange, x1h \in ArgRange :
        LET k == hilo_key(x0h, x1h)
            v == hilo_value(ds["A"], x0h, x1h)
        IN  loc(ds["A"].df, k[1], k[2]) = {} =>
                /\ v = <<0, 0, 0, 0, 0>>
                /\ update_y_zoom_vb(v, <<x0h, x1h>>).yr = vb.yr

-----------------------------------------------------------------------------
(* Claims about _pdtime2index *)

(* the last call was _pdtime2index with a first time earlier than the     *)
(* earliest sample of the axis                                            *)
AskedBeforeFirst ==
    /\ call.op = "_pdtime2index"
    /\ ts_epochs(call.ts)[1] < x_of(ds[vb.datasrc])[1]

(* C18 as stated: _pdtime2index called with a time earlier than the       *)
(* earliest sample of the axis raises an error instead of returning an    *)
(* index.                                                                 *)
C18_AsStated == AskedBeforeFirst => call.out.raises # "none"

(* C18: _pdtime2index called with a first time earlier than the earliest  *)
(* sample of an axis with two or more samples raises nothing and returns  *)
(* for it the negative index extrapolated from the first two samples;     *)
(* it raises its assertion exactly when the first time is later than the  *)
(* latest sample.                                                         *)
C18_EarlyTimeExtrapolates ==
    call.op = "_pdtime2index" =>
        LET xs == x_of(ds[vb.datasrc])
            t  == ts_epochs(call.ts)[1]
        IN  /\ (t < xs[1] /\ Len(xs) >= 2) =>
                  /\ call.out.raises = "none"
                  /\ call.out.r[1] = <<t - xs[1], xs[2] - xs[1]>>
                  /\ call.out.r[1][1] < 0 /\ call.out.r[1][2] > 0
            /\ call.out.raises = "AssertionError" <=> t > xs[Len(xs)]

(* a time one sample period before the first sample came back as index -1 *)
C18_Witness ==
    /\ AskedBeforeFirst
    /\ call.out.raises = "none"
    /\ call.out.r = <<<<0 - 10, 10>>>>

-----------------------------------------------------------------------------
(* Claims about significant decimals *)

(* the column calc_significant_decimals reads in store s *)
SignifCol(s) ==
    LET c == ds[s].col_data_offset + (IF Len(ds[s].scale_cols) > 1 THEN 1 ELSE 0) + 1
    IN  [i \in 1..Len(ds[s].df.rows) |-> ds[s].df.rows[i][c]]

(* the last call computed the significant decimals of a column that is    *)
(* all NaN or constant                                                    *)
SignifDegenerate ==
    /\ call.op = "_update_significants" /\ call.ran
    /\ \/ Range(SignifCol(call.s)) = {NaN}
       \/ (Cardinality(Range(SignifCol(call.s))) = 1 /\ Len(SignifCol(call.s)) >= 2)

(* C19: when the significant-decimal calculation runs on a column that is *)
(* all NaN or constant, the axis keeps the significant_decimals and       *)
(* significant_eps it had (no exception leaves _update_significants in    *)
(* any case: its except clause is bare).                                  *)
C19_DegenerateKeepsAxis == SignifDegenerate => call.ax = call.pre

-----------------------------------------------------------------------------
(* Claims about the Y-range *)

(* C12: in log-scale mode, for every hi and lo the hi-lo query can        *)
(* return (lo <= 0 and hi <= 0 included) and every zoom scale and         *)
(* baseline the code uses, the bounds y0 and y1 update_y_zoom computes    *)
(* are both strictly positive.                                            *)
C12_LogRangePositive ==
    (call.op = "log_range" /\ call.hi.k # "nan") =>
        \A i \in 1..2 : call.y[i].k \in {"fin", "inf"} /\ call.y[i].sgn = 1

(* C13: in linear mode, for every hi and lo (hi = lo and hi < lo          *)
(* included), zoom scale and baseline, the Y-range update_y_zoom computes *)
(* has a width y1 - y0 of at least 2e-7.                                  *)
C13_LinRangeWidth ==
    call.op = "lin_range" =>
        ~dbl_lt(dbl_sum(call.y[2], dbl_neg(call.y[1])), two_e_7)

-----------------------------------------------------------------------------
(* Claims about the cached picture *)

(* C20: after update_dirty_picture(visible) on an item with lod, the      *)
(* dirty flag is false, cached.left <= visible.left, visible.right <=     *)
(* cached.right and visible.width >= cached.width / cache_candle_factor;  *)
(* and the picture was regenerated in the call iff the item was dirty or  *)
(* one of the three conditions failed on entry.                           *)
C20_PictureCoversView ==
    (call.op = "update_dirty_picture" /\ item.lod) =>
        /\ ~item.dirty
        /\ ~dbl_lt(call.visibleRect.left, item.cachedRect.left)
        /\ ~dbl_lt(right(item.cachedRect), right(call.visibleRect))
        /\ ~dbl_lt(call.visibleRect.width,
                   dbl_div(item.cachedRect.width, dbl(cache_candle_factor, 0)))
        /\ call.regenerated <=>
               \/ call.pre.dirty
               \/ dbl_lt(call.visibleRect.left, call.pre.cachedRect.left)
               \/ dbl_lt(right(call.pre.cachedRect), right(call.visibleRect))
               \/ dbl_lt(call.visibleRect.width,
                         dbl_div(call.pre.cachedRect.width, dbl(cache_candle_factor, 0)))

-----------------------------------------------------------------------------
(* Claims about _pdtime2index within the samples *)

(* the last call was _pdtime2index with times that all lie between the    *)
(* first and the last sample of the axis                                  *)
AskedWithin ==
    /\ call.op = "_pdtime2index"
    /\ \A k \in 1..Len(call.ts) :
          /\ x_of(ds[vb.datasrc])[1] <= call.ts[k]
          /\ call.ts[k] <= x_of(ds[vb.datasrc])[Len(x_of(ds[vb.datasrc]))]

(* C21: for a strictly increasing time column and times t between the     *)
(* first and the last sample, _pdtime2index returns                       *)
(* i0 + (t - time[i0]) / (time[i0+1] - time[i0]) where                    *)
(* time[i0] <= t < time[i0+1], exactly i when t = time[i] (the last row   *)
(* included), and the result is non-decreasing in t.                      *)
C21_WithinInterpolates ==
    AskedWithin =>
        LET xs == x_of(ds[vb.datasrc])
            r  == call.out.r
        IN  /\ call.out.raises = "none"
            /\ Len(r) = Len(call.ts)
            /\ \A k \in 1..Len(call.ts) :
                  /\ r[k][2] > 0
                  /\ \A i \in 1..Len(xs) :
                        call.ts[k] = xs[i] => r[k][1] = (i - 1) * r[k][2]
                  /\ \A i \in 1..(Len(xs) - 1) :
                        (xs[i] <= call.ts[k] /\ call.ts[k] < xs[i + 1]) =>
                            r[k][1] * (xs[i + 1] - xs[i]) =
                                r[k][2] * ((i - 1) * (xs[i + 1] - xs[i]) + call.ts[k] - xs[i])
            /\ \A k, l \in 1..Len(call.ts) :
                  call.ts[k] <= call.ts[l] => r[k][1] * r[l][2] <= r[l][1] * r[k][2]

(* the times 1030 and 1025 on the samples 1010, 1020, 1040 came back as   *)
(* the indices 1.5 and 1.25                                               *)
C21_Witness ==
    /\ AskedWithin
    /\ call.ts = <<1030, 1025>>
    /\ call.out.r = <<<<30, 20>>, <<25, 20>>>>

(* C27: _pdtime2index returns one index per input time, in input order,   *)
(* or raises: the list it returns is as long as the list of times given.  *)
C27_OneIndexPerTime ==
    (call.op = "_pdtime2index" /\ call.out.raises = "none") =>
        Len(call.out.r) = Len(call.ts)

-----------------------------------------------------------------------------
(* Claims about the width the rigid-edge clamp keeps *)

(* x = n/8 lies outside the data bounds [-0.5, xlen-0.5] *)
OutsideData(n) == n < 0 - 4 \/ n > 8 * xlen(ds[vb.datasrc]) - 4

(* the last call made a range rigid whose edges lie on cell boundaries,   *)
(* whose width is at most xlen and exactly one of whose edges lies        *)
(* outside the data bounds                                                *)
OneEdgeOutside ==
    /\ call.op = "rigid_edges" /\ ~call.again
    /\ (call.x[1] - 4) % 8 = 0 /\ (call.x[2] - 4) % 8 = 0
    /\ call.x[2] - call.x[1] <= 8 * xlen(ds[vb.datasrc])
    /\ OutsideData(call.x[1]) # OutsideData(call.x[2])

(* C22: when update_y_zoom is given a range whose edges lie on            *)
(* half-integer cell boundaries, whose width is at most xlen and exactly  *)
(* one of whose edges lies outside the data bounds, the range it sets is  *)
(* as wide as the range it was given.                                     *)
C22_ClampKeepsWidth ==
    OneEdgeOutside => 4 * (call.out[2] - call.out[1]) = call.x[2] - call.x[1]

(* the range -1.5..2.5 on a store with xlen 8 came back as -0.5..3.5 *)
C22_Witness ==
    /\ OneEdgeOutside
    /\ xlen(ds[vb.datasrc]) = 8
    /\ call.x = <<0 - 12, 20>>
    /\ call.out = <<0 - 1, 7>>

-----------------------------------------------------------------------------
(* Claims about wheel zooms *)

(* the last call was a wheelEvent on a view whose edges lay on cell       *)
(* boundaries, and its update_y_zoom did not return early                 *)
Wheeled ==
    /\ log # <<>>
    /\ Last.op = "wheelEvent"
    /\ ~Last.skipped
    /\ Last.pre[1] % 2 = 1 /\ Last.pre[2] % 2 = 1

(* the mouse was within 5% of the visible width from the left edge *)
PivotLeft == 5 * (Last.a[3] - 4 * Last.pre[1]) < Width(Last.pre)

(* the mouse was within 5% of the visible width from the right edge *)
PivotRight == ~PivotLeft /\ 5 * (Last.a[3] - 4 * Last.pre[1]) > 19 * Width(Last.pre)

(* C23 as stated: a wheel zoom whose pivot lies within 5% of the visible  *)
(* width from the left edge leaves the visible left edge unchanged, and   *)
(* one within 5% of the right edge leaves the right edge unchanged, for   *)
(* every scale factor, when the visible range started on half-integer     *)
(* boundaries and the update is not skipped.                              *)
C23_AsStated ==
    Wheeled =>
        /\ PivotLeft => vb.tr[1] = Last.pre[1]
        /\ PivotRight => vb.tr[2] = Last.pre[2]

(* the edge n/(8*sd) the zoom asked for opposite its pivot lies within    *)
(* the data bounds and is not a whole number                              *)
OppositeEdgeFree(n, sd) ==
    /\ n >= 0 - 4 * sd
    /\ n <= 4 * sd * RightBound
    /\ n % (8 * sd) # 0

(* C23: a wheel zoom whose pivot lies within 5% of the visible width from *)
(* the left edge leaves the visible left edge unchanged, and one within   *)
(* 5% of the right edge leaves the right edge unchanged, when the visible *)
(* range started on half-integer boundaries, the update is not skipped,   *)
(* and the opposite edge the zoom asks for lies within the data bounds    *)
(* and is not a whole number.                                             *)
C23_PivotEdgeStays ==
    Wheeled =>
        /\ (PivotLeft /\ OppositeEdgeFree(Last.asked[2], Last.a[2])) => vb.tr[1] = Last.pre[1]
        /\ (PivotRight /\ OppositeEdgeFree(Last.asked[1], Last.a[2])) => vb.tr[2] = Last.pre[2]

(* a zoom by 3/4 with the mouse one row right of the left edge narrowed   *)
(* the view and left its left edge where it was                           *)
C23_Witness ==
    /\ Wheeled /\ PivotLeft
    /\ Last.a[1] = 3 /\ Last.a[2] = 4
    /\ Last.a[3] = 4 * Last.pre[1] + 8
    /\ OppositeEdgeFree(Last.asked[2], Last.a[2])
    /\ vb.tr[1] = Last.pre[1]
    /\ Width(vb.tr) < Width(Last.pre)

-----------------------------------------------------------------------------
(* Claims about the early return of update_y_zoom *)

(* the X-range the last wheelEvent handed to update_y_zoom, made rigid,   *)
(* in halves                                                              *)
ClampedOfLast ==
    rigid_edges(Last.asked[1], Last.asked[2], 8 * Last.a[2], xlen(ds[vb.datasrc]))

(* what hilo returns for that range *)
HiloOfLast == hilo_value(ds[vb.datasrc], ClampedOfLast[1], ClampedOfLast[2])

(* the row count hilo returned is smaller than the view width before the  *)
(* call and smaller than max_zoom_points                                  *)
FewRows == 2 * HiloOfLast[5] < Width(Last.pre) /\ HiloOfLast[5] < max_zoom_points

(* C24: update_y_zoom leaves the visible X-range and the Y-range          *)
(* unchanged exactly when the row count hilo returns for the clamped      *)
(* range is smaller than the current view width and smaller than          *)
(* max_zoom_points; in every other case with non-NaN bounds it sets the   *)
(* clamped X-range and the Y-range recomputed from hilo's hi and lo (on   *)
(* an axis with baseline 0.5 and zoom scale 1: lo to hi).                 *)
C24_SkipsExactlyOnFewRows ==
    (log # <<>> /\ Last.op = "wheelEvent") =>
        /\ FewRows => (vb.tr = Last.pre /\ vb.yr = Last.preyr)
        /\ (~FewRows /\ HiloOfLast[3] # NaN /\ HiloOfLast[4] # NaN /\ HiloOfLast[3] > HiloOfLast[4]) =>
              /\ vb.tr = ClampedOfLast
              /\ vb.yr = <<HiloOfLast[4] * y_unit, HiloOfLast[3] * y_unit>>

(* a wheel zoom that asked for a range of fewer than max_zoom_points rows *)
(* was skipped, after one that was not                                    *)
C24_Witness ==
    /\ Len(log) = 2
    /\ log[1].op = "wheelEvent" /\ Last.op = "wheelEvent"
    /\ log[1].pre # Last.pre
    /\ FewRows
    /\ ClampedOfLast # Last.pre
    /\ vb.tr = Last.pre

-----------------------------------------------------------------------------
(* Claims about live updates of merged stores *)

(* the last call updated a store that had been merged into the store of   *)
(* the axis and shared its table                                          *)
UpdatedMerged ==
    /\ log # <<>>
    /\ Last.op = "update"
    /\ Last.a[1] # vb.datasrc
    /\ Last.pre[Last.a[1]].dfid = Last.pre[vb.datasrc].dfid

(* C25: after a live update of a store B that was earlier merged into the *)
(* store A of the axis, A and B still reference the same table, so a      *)
(* hi-lo query through A reflects the updated data.                       *)
C25_UpdateKeepsAlias ==
    UpdatedMerged =>
        /\ ds[Last.a[1]].dfid = ds[vb.datasrc].dfid
        /\ ds[Last.a[1]].df = ds[vb.datasrc].df

(* C26: after any sequence of addcols merges into a store (and no         *)
(* update), the column names of the unified table are pairwise distinct.  *)
C26_MergedNamesDistinct ==
    nupd = 0 =>
        \A s \in DOMAIN ds :
            \A i, j \in 1..Len(ds[s].df.columns) :
                ds[s].df.columns[i] = ds[s].df.columns[j] => i = j

-----------------------------------------------------------------------------
(* Claims about the Y scale *)

(* C28: for every YScale reachable through create_plot, _create_datasrc   *)
(* and set_yscale calls, xform(invxform(y)) = y for y > 0, and a log-type *)
(* YScale has scalef = 1.                                                 *)
C28_ScaleRoundTrip ==
    /\ call.op = "xform_invxform" =>
          /\ call.out.k = "fin" /\ call.out.sgn = 1
          /\ call.out.n * call.y.d = call.y.n * call.out.d
    /\ vb.yscale.scaletype = "log" => vb.yscale.scalef = 1

-----------------------------------------------------------------------------
(* Claims about the Y-range of the linear branch *)

(* two doubles are the same number *)
dbl_eq(a, b) == ~dbl_lt(a, b) /\ ~dbl_lt(b, a)

(* a <= b *)
dbl_le(a, b) == ~dbl_lt(b, a)

(* C29: with auto-zoom disabled update_y_zoom takes hi and lo from the    *)
(* bottom and top of the current view rectangle, and the Y-range it       *)
(* computes from them equals the current Y-range (lo to hi), for every    *)
(* zoom scale and baseline.                                               *)
C29_FixedRangeKept ==
    (call.op = "lin_range" /\ dbl_lt(call.lo, call.hi)) =>
        /\ dbl_eq(call.y[1], call.lo)
        /\ dbl_eq(call.y[2], call.hi)

(* C30: in linear mode with auto-zoom on, hi >= lo and 0 < zoom scale     *)
(* <= 1, the Y-range update_y_zoom computes contains both lo and hi, for  *)
(* the baselines 0.5 and 0.                                               *)
C30_RangeContainsHiLo ==
    (call.op = "lin_range" /\ dbl_le(call.lo, call.hi)) =>
        /\ dbl_le(call.y[1], call.lo)
        /\ dbl_le(call.hi, call.y[2])

====
